---- MODULE Spec2Model ----
(***************************************************************************)
(* SynergyForge, functions/src/index.ts (compiled: lib/index.js).          *)
(* Token lifecycle (cachedToken, getAppAccessToken, oauthClientCreds) and  *)
(* the paginated sync (syncGameRef).  Times are milliseconds as returned   *)
(* by Date.now(); JSON/JavaScript values are tagged records.               *)
(***************************************************************************)
EXTENDS Integers, Sequences, FiniteSets, TLC

\* ---------------------------------------------------------------- bounds
NumCallers == 2      \* handler invocations that may overlap
MaxCalls == 2        \* handler invocations started in one behaviour
MaxTicks == 2        \* clock advances in one behaviour
MaxFullPages == 2    \* full pages of characters a small upstream holds

\* ------------------------------------------------------ JavaScript values
Undefined == [t |-> "undefined"]
Null == [t |-> "null"]
Num(n) == [t |-> "number", n |-> n]
Str(s) == [t |-> "string", s |-> s]
Bool(b) == [t |-> "boolean", b |-> b]
Arr(a) == [t |-> "array", a |-> a]
Obj(f) == [t |-> "object", f |-> f]

\* ToBoolean: the test applied by !x, x && y, if (x)
Truthy(v) ==
  CASE v.t = "undefined" -> FALSE
    [] v.t = "null" -> FALSE
    [] v.t = "number" -> v.n # 0
    [] v.t = "string" -> v.s # ""
    [] v.t = "boolean" -> v.b
    [] OTHER -> TRUE

\* v?.k : property read that yields undefined on null/undefined/primitives
Get(v, k) ==
  IF v.t = "object" /\ k \in DOMAIN v.f THEN v.f[k] ELSE Undefined

\* a ?? b
Coalesce(a, b) == IF a.t \in {"undefined", "null"} THEN b ELSE a

Max(a, b) == IF a >= b THEN a ELSE b
Min(a, b) == IF a <= b THEN a ELSE b

\* ------------------------------------------------------------- variables
VARIABLES
  config,        \* values of the defineString params
  now,           \* Date.now()
  cachedToken,   \* module-level cachedToken: Null or {access_token, expiresAt}
  handler,       \* per invocation: the function that was invoked
  req,           \* per invocation: the incoming HTTP request, if any
  pc,            \* per invocation: where it is suspended
  tokenReq,      \* per invocation: the token request it has in flight / sent
  tokenResp,     \* per invocation: the token endpoint's response
  token,         \* per invocation: outcome of getAppAccessToken
  res,           \* per invocation: the HTTP response the handler produced
  tokenFetches,  \* number of fetch(MSF_TOKEN_URL) requests issued
  lastStore,     \* history: the assignment that last wrote cachedToken
  calls,         \* invocations started so far
  ticks,         \* clock advances so far
  sync,          \* per invocation: the locals of syncGameRef
  bucket,        \* Cloud Storage: the object stored at each path
  metaDoc,       \* Firestore: the document meta/datasets
  upstream,      \* the game API: the data it serves
  proxy,         \* per invocation: the locals of msfProxy
  runLog,        \* history: the store before the latest sync run, its writes
  ds,            \* per invocation: the locals of datasets
  client         \* the browser client: its cookie jar and the locals of call,
                 \* or the locals of getAllCharacters

syncVars == <<sync, bucket, metaDoc, upstream>>

vars == <<config, now, cachedToken, handler, req, pc, tokenReq, tokenResp, token,
          res, tokenFetches, lastStore, calls, ticks, sync, bucket, metaDoc,
          upstream, proxy, runLog, ds, client>>

None == [t |-> "none"]
Infinity == [t |-> "number", inf |-> TRUE]
Paths == {"datasets/traits.json", "datasets/characters.json"}
Absent == [t |-> "absent"]
Callers == DOMAIN pc

\* ------------------------------------------------------------ parameters
ConfigSet ==
  [MSF_CLIENT_ID : {"", "client-id"},
   MSF_CLIENT_SECRET : {"", "s3cret"},
   MSF_TOKEN_URL : {"", "https://hydra/oauth2/token"}]

\* ------------------------------------------------------ getAppAccessToken
SafetyWindowMs == 60000
MinExpiresIn == 60

\* variants of CacheValid: the comparison reversed; the boundary included
CacheValid_Reversed(c, t) == c # Null /\ t > c.expiresAt - SafetyWindowMs
CacheValid_Inclusive(c, t) == c # Null /\ t <= c.expiresAt - SafetyWindowMs

\* cachedToken && Date.now() < cachedToken.expiresAt - 60_000
CacheValid(c, t) == c # Null /\ t < c.expiresAt - SafetyWindowMs

\* the object returned on the cache path
CachedResult(c, t) ==
  Obj([access_token |-> c.access_token,
       expires_in |-> Num(Max(MinExpiresIn, (c.expiresAt - t) \div 1000))])

useBasic(cfg) == cfg.MSF_CLIENT_ID # "" /\ cfg.MSF_CLIENT_SECRET # ""

\* variant of TokenRequest: client_id always placed in the form
TokenRequest_ClientIdInBody(cfg) ==
  IF useBasic(cfg)
  THEN [url |-> cfg.MSF_TOKEN_URL, method |-> "POST",
        headers |-> [ContentType |-> "application/x-www-form-urlencoded",
                     Authorization |-> <<"Basic", cfg.MSF_CLIENT_ID, cfg.MSF_CLIENT_SECRET>>],
        body |-> [grant_type |-> "client_credentials", scope |-> "openid",
                  client_id |-> cfg.MSF_CLIENT_ID]]
  ELSE [url |-> cfg.MSF_TOKEN_URL, method |-> "POST",
        headers |-> [ContentType |-> "application/x-www-form-urlencoded"],
        body |-> [grant_type |-> "client_credentials", scope |-> "openid",
                  client_id |-> cfg.MSF_CLIENT_ID,
                  client_secret |-> cfg.MSF_CLIENT_SECRET]]

\* headers and form of the token request; Basic <base64(id:secret)> is kept
\* as the pair it encodes
TokenRequest(cfg) ==
  IF useBasic(cfg)
  THEN [url |-> cfg.MSF_TOKEN_URL, method |-> "POST",
        headers |-> [ContentType |-> "application/x-www-form-urlencoded",
                     Authorization |-> <<"Basic", cfg.MSF_CLIENT_ID, cfg.MSF_CLIENT_SECRET>>],
        body |-> [grant_type |-> "client_credentials", scope |-> "openid"]]
  ELSE [url |-> cfg.MSF_TOKEN_URL, method |-> "POST",
        headers |-> [ContentType |-> "application/x-www-form-urlencoded"],
        body |-> [grant_type |-> "client_credentials", scope |-> "openid",
                  client_id |-> cfg.MSF_CLIENT_ID,
                  client_secret |-> cfg.MSF_CLIENT_SECRET]]

\* response texts: either not JSON, or the serialisation of a JSON value
NotJSON == [json |-> FALSE]
JSONText(v) == [json |-> TRUE, value |-> v]

AccessTokens == {Str("tokA"), Str("tokB")}
ExpiresIns == {Num(0), Num(-5), Num(30), Num(61), Num(3600), Num(7200)}
TokenAbc == Obj([access_token |-> Str("abc"), expires_in |-> Num(1800)])

\* token objects: complete ones, and ones with a field empty or absent
TokenObjects ==
  {Obj([access_token |-> a, expires_in |-> e]) : a \in AccessTokens, e \in ExpiresIns}
    \cup {TokenAbc,
          Obj([access_token |-> Str(""), expires_in |-> Num(3600)]),
          Obj([access_token |-> Str("tokA")]),
          Obj([expires_in |-> Num(3600)])}

TokenBodies == {NotJSON, JSONText(Null)} \cup {JSONText(o) : o \in TokenObjects}

ErrorBodies ==
  {NotJSON, JSONText(Obj([access_token |-> Str("tokA"), expires_in |-> Num(3600)]))}

\* what the token endpoint may answer
TokenResponses ==
  {[status |-> 200, text |-> b] : b \in TokenBodies}
    \cup {[status |-> s, text |-> b] : s \in {500}, b \in ErrorBodies}

\* Response.ok
Ok(r) == r.status >= 200 /\ r.status <= 299

\* Number(x) for the values an expires_in can take here
ToNumber(v) ==
  CASE v.t = "number" -> v.n
    [] v.t = "boolean" -> IF v.b THEN 1 ELSE 0
    [] OTHER -> 0

TokenTransportError(status) == [message |-> "Hydra token error", status |-> status]
TokenParseError == [message |-> "Hydra token parse error"]
TokenShapeError == [message |-> "Hydra token missing fields"]
FetchFailed == [message |-> "fetch failed"]

Return(v) == [ok |-> TRUE, value |-> v]
Throw(e) == [ok |-> FALSE, error |-> e]

\* variant of TokenOutcome: the body is decoded before the status is looked at
TokenOutcome_ParseFirst(r) ==
  IF ~r.text.json THEN Throw(TokenParseError)
  ELSE IF ~Ok(r) THEN Throw(TokenTransportError(r.status))
  ELSE IF ~Truthy(Get(r.text.value, "access_token"))
            \/ ~Truthy(Get(r.text.value, "expires_in"))
       THEN Throw(TokenShapeError)
  ELSE Return(r.text.value)

\* the checks applied to a response, in the order of the code
TokenOutcome(r) ==
  IF ~Ok(r) THEN Throw(TokenTransportError(r.status))
  ELSE IF ~r.text.json THEN Throw(TokenParseError)
  ELSE IF ~Truthy(Get(r.text.value, "access_token"))
            \/ ~Truthy(Get(r.text.value, "expires_in"))
       THEN Throw(TokenShapeError)
  ELSE Return(r.text.value)

\* variants of NewCachedToken: seconds added to milliseconds; a refresh that
\* keeps the expiry of the token it replaces
NewCachedToken_Seconds(old, json, t) ==
  [access_token |-> Get(json, "access_token"),
   expiresAt |-> t + ToNumber(Get(json, "expires_in"))]
NewCachedToken_KeepExpiry(old, json, t) ==
  [access_token |-> Get(json, "access_token"),
   expiresAt |-> IF old # Null THEN old.expiresAt
                 ELSE t + ToNumber(Get(json, "expires_in")) * 1000]

\* cachedToken = { access_token, expiresAt: Date.now() + Number(expires_in) * 1000 }
NewCachedToken(old, json, t) ==
  [access_token |-> Get(json, "access_token"),
   expiresAt |-> t + ToNumber(Get(json, "expires_in")) * 1000]

\* --------------------------------------------------------- oauthClientCreds
\* variant of missing: the token URL is not looked at
missing_NoUrl(cfg) ==
  SelectSeq(<<"MSF_CLIENT_ID", "MSF_CLIENT_SECRET">>, LAMBDA k : cfg[k] = "")

\* the names pushed to missing[], in the order of the three checks
missing(cfg) ==
  SelectSeq(<<"MSF_CLIENT_ID", "MSF_CLIENT_SECRET", "MSF_TOKEN_URL">>,
            LAMBDA k : cfg[k] = "")

DefaultMaxAge == 3300
MaxCookieAge == 3600

\* variant of maxAge: a long lifetime is not cut down
maxAge_Uncut(tok) ==
  Max(60, ToNumber(Coalesce(Get(tok, "expires_in"), Num(DefaultMaxAge))))

maxAge(tok) ==
  Max(60, Min(ToNumber(Coalesce(Get(tok, "expires_in"), Num(DefaultMaxAge))), MaxCookieAge))

\* the response written once getAppAccessToken has returned or thrown
oauthClientCredsFinish(outcome) ==
  IF outcome.ok
  THEN [status |-> 200,
        body |-> [ok |-> TRUE,
                  expires_in |-> Coalesce(Get(outcome.value, "expires_in"), Num(0))],
        setCookie |-> [name |-> "msf_at",
                       value |-> Get(outcome.value, "access_token"),
                       maxAge |-> maxAge(outcome.value)]]
  ELSE [status |-> 500, body |-> [ok |-> FALSE, error |-> outcome.error],
        setCookie |-> None]

MethodNotAllowed ==
  [status |-> 405, body |-> [text |-> "POST only"], setCookie |-> None]
ConfigMissing(names) ==
  [status |-> 400,
   body |-> [ok |-> FALSE, error |-> [message |-> "Missing env", names |-> names]],
   setCookie |-> None]

\* ------------------------------------------------------------- syncGameRef
perPage == 200
MaxPage == 200

\* String(v)
RECURSIVE JSString(_), Join(_)
Join(a) ==
  LET first == IF a[1].t \in {"null", "undefined"} THEN "" ELSE JSString(a[1]).s
  IN IF Len(a) = 0 THEN ""
     ELSE IF Len(a) = 1 THEN first
     ELSE first \o "," \o Join(Tail(a))
JSString(v) ==
  CASE v.t = "string" -> v
    [] v.t = "number" -> Str(ToString(v.n))
    [] v.t = "boolean" -> Str(IF v.b THEN "true" ELSE "false")
    [] v.t = "null" -> Str("null")
    [] v.t = "undefined" -> Str("undefined")
    [] v.t = "array" -> Str(Join(v.a))
    [] OTHER -> Str("[object Object]")

TypeError == [message |-> "Cannot read properties"]

\* variant of NormalizedKeys: every field of the raw record is kept
NormalizedKeys_CopyAll(c) ==
  {"id", "name", "traits"} \cup (IF c.t = "object" THEN DOMAIN c.f ELSE {})

\* the keys the normalizer sets on out for the raw record c
NormalizedKeys(c) ==
  {"id", "name", "traits"}
    \cup {k \in {"imageUrl", "faction", "role"} : Truthy(Get(c, k))}
    \cup {k \in {"stats"} : Truthy(Get(c, k)) /\ Get(c, k).t \in {"object", "array"}}

\* items.map((c) => { ... }) for one raw record: reading a property of null
\* or undefined throws
Normalize(c) ==
  IF c.t \in {"null", "undefined"} THEN Throw(TypeError)
  ELSE Return(Obj([k \in NormalizedKeys(c) |->
         CASE k = "id" -> JSString(Coalesce(Get(c, "id"), Str("")))
           [] k = "name" -> Coalesce(Get(c, "name"), Str(""))
           [] k = "traits" ->
                IF Get(c, "traits").t = "array"
                THEN Arr([i \in 1..Len(Get(c, "traits").a) |->
                            JSString(Get(c, "traits").a[i])])
                ELSE Arr(<<>>)
           [] k = "stats" -> Get(c, "stats")
           [] OTHER -> JSString(Get(c, k))]))

\* the k-th character record of the upstream's data
RawChar(k) ==
  IF k % 2 = 1
  THEN Obj([id |-> Num(k), name |-> Str("Hero"),
            traits |-> Arr(<<Str("Bio"), Num(7)>>), level |-> Num(1)])
  ELSE Obj([id |-> Str(ToString(k)), name |-> Str("Minion"), role |-> Str("Tank")])

\* the number of records the upstream puts on page n
PageSize(up, n) ==
  IF n <= up.full THEN perPage ELSE IF n = up.full + 1 THEN up.short ELSE 0

\* the k-th item of the upstream's character list: RawChar(k), or the value
\* up.odd the upstream holds in the first place
RawItem(up, k) == IF k = 1 /\ up.odd # None THEN up.odd ELSE RawChar(k)

\* an upstream that declares one total on page 1 and another one later
Revised(first, later) == [t |-> "revised", first |-> first, later |-> later]

\* the perTotal the upstream declares on page n
DeclaredTotal(up, n) ==
  IF up.perTotal.t = "revised"
  THEN IF n = 1 THEN up.perTotal.first ELSE up.perTotal.later
  ELSE up.perTotal

\* the decoded body of GET game/v1/characters?...&perPage=200&page=n
UpstreamPage(up, n) ==
  LET items == [i \in 1..PageSize(up, n) |-> RawItem(up, (n - 1) * perPage + i)]
  IN IF ~up.envelope THEN Arr(items)
     ELSE IF DeclaredTotal(up, n) = Undefined THEN Obj([items |-> Arr(items)])
     ELSE Obj([items |-> Arr(items),
               meta |-> Obj([perTotal |-> DeclaredTotal(up, n)])])

TraitsPath == <<"game/v1/traits?lang=none">>
CharactersPath(n) == <<"game/v1/characters?lang=none&traitFormat=id", perPage, n>>

\* UpstreamHTTPError: the Error thrown by fetchJSON on a non-ok status
UpstreamHTTPError(path, status) ==
  [message |-> "fetchJSON", path |-> path, status |-> status]
PersistenceError == [message |-> "storage"]

\* allChars.length < perTotal
LengthBelow(n, total) == IF "inf" \in DOMAIN total THEN TRUE ELSE n < total.n

\* Array.isArray(resp) ? resp : (resp.items ?? [])
PageItems(resp) ==
  IF resp.t = "array" THEN resp ELSE Coalesce(Get(resp, "items"), Arr(<<>>))

\* variant of LoopBody: a full page without a declared total is taken to be
\* the last one (the estimate does not add perPage)
LoopBody_EstimateNoMore(l, resp) ==
  LET items == PageItems(resp).a
      normalized == [i \in 1..Len(items) |-> Normalize(items[i]).value]
      allChars == l.allChars \o normalized
      meta == Coalesce(Get(resp, "meta"), Obj([none |-> Undefined]))
      perTotal == Coalesce(Get(meta, "perTotal"), Num(Len(allChars)))
      short == Len(items) < perPage
      page == IF short THEN l.page ELSE l.page + 1
      next == ~short /\ ~(page > MaxPage) /\ LengthBelow(Len(allChars), perTotal)
  IN [locals |-> [l EXCEPT !.allChars = allChars, !.perTotal = perTotal,
                           !.page = page,
                           !.requested = IF next THEN Append(@, CharactersPath(page))
                                         ELSE @],
      next |-> next]

\* variant of LoopBody: the page number advances by two
LoopBody_SkipPage(l, resp) ==
  LET items == PageItems(resp).a
      normalized == [i \in 1..Len(items) |-> Normalize(items[i]).value]
      allChars == l.allChars \o normalized
      meta == Coalesce(Get(resp, "meta"), Obj([none |-> Undefined]))
      perTotal == Coalesce(Get(meta, "perTotal"),
                           IF Len(items) < perPage THEN Num(Len(allChars))
                           ELSE Num(Len(allChars) + perPage))
      short == Len(items) < perPage
      page == IF short THEN l.page ELSE l.page + 2
      next == ~short /\ ~(page > MaxPage) /\ LengthBelow(Len(allChars), perTotal)
  IN [locals |-> [l EXCEPT !.allChars = allChars, !.perTotal = perTotal,
                           !.page = page,
                           !.requested = IF next THEN Append(@, CharactersPath(page))
                                         ELSE @],
      next |-> next]

\* variant of LoopBody: a short page does not end the loop
LoopBody_NoShortBreak(l, resp) ==
  LET items == PageItems(resp).a
      normalized == [i \in 1..Len(items) |-> Normalize(items[i]).value]
      allChars == l.allChars \o normalized
      meta == Coalesce(Get(resp, "meta"), Obj([none |-> Undefined]))
      perTotal == Coalesce(Get(meta, "perTotal"),
                           IF Len(items) < perPage THEN Num(Len(allChars))
                           ELSE Num(Len(allChars) + perPage))
      page == l.page + 1
      next == ~(page > MaxPage) /\ LengthBelow(Len(allChars), perTotal)
  IN [locals |-> [l EXCEPT !.allChars = allChars, !.perTotal = perTotal,
                           !.page = page,
                           !.requested = IF next THEN Append(@, CharactersPath(page))
                                         ELSE @],
      next |-> next]

\* variant of LoopBody: no safety cap on the page number
LoopBody_NoCap(l, resp) ==
  LET items == PageItems(resp).a
      normalized == [i \in 1..Len(items) |-> Normalize(items[i]).value]
      allChars == l.allChars \o normalized
      meta == Coalesce(Get(resp, "meta"), Obj([none |-> Undefined]))
      perTotal == Coalesce(Get(meta, "perTotal"),
                           IF Len(items) < perPage THEN Num(Len(allChars))
                           ELSE Num(Len(allChars) + perPage))
      short == Len(items) < perPage
      page == IF short THEN l.page ELSE l.page + 1
      next == ~short /\ LengthBelow(Len(allChars), perTotal)
  IN [locals |-> [l EXCEPT !.allChars = allChars, !.perTotal = perTotal,
                           !.page = page,
                           !.requested = IF next THEN Append(@, CharactersPath(page))
                                         ELSE @],
      next |-> next]

\* variant of LoopBody: the records of a page are put in front of the ones
\* collected before
LoopBody_Prepend(l, resp) ==
  LET items == PageItems(resp).a
      normalized == [i \in 1..Len(items) |-> Normalize(items[i]).value]
      allChars == normalized \o l.allChars
      meta == Coalesce(Get(resp, "meta"), Obj([none |-> Undefined]))
      perTotal == Coalesce(Get(meta, "perTotal"),
                           IF Len(items) < perPage THEN Num(Len(allChars))
                           ELSE Num(Len(allChars) + perPage))
      short == Len(items) < perPage
      page == IF short THEN l.page ELSE l.page + 1
      next == ~short /\ ~(page > MaxPage) /\ LengthBelow(Len(allChars), perTotal)
  IN [locals |-> [l EXCEPT !.allChars = allChars, !.perTotal = perTotal,
                           !.page = page,
                           !.requested = IF next THEN Append(@, CharactersPath(page))
                                         ELSE @],
      next |-> next]

\* variant of LoopBody: a total declared by an earlier page is kept
LoopBody_KeepFirstTotal(l, resp) ==
  LET items == PageItems(resp).a
      normalized == [i \in 1..Len(items) |-> Normalize(items[i]).value]
      allChars == l.allChars \o normalized
      meta == Coalesce(Get(resp, "meta"), Obj([none |-> Undefined]))
      perTotal == IF l.page > 1 /\ Get(meta, "perTotal") # Undefined
                  THEN l.perTotal
                  ELSE Coalesce(Get(meta, "perTotal"),
                                IF Len(items) < perPage THEN Num(Len(allChars))
                                ELSE Num(Len(allChars) + perPage))
      short == Len(items) < perPage
      page == IF short THEN l.page ELSE l.page + 1
      next == ~short /\ ~(page > MaxPage) /\ LengthBelow(Len(allChars), perTotal)
  IN [locals |-> [l EXCEPT !.allChars = allChars, !.perTotal = perTotal,
                           !.page = page,
                           !.requested = IF next THEN Append(@, CharactersPath(page))
                                         ELSE @],
      next |-> next]

\* one pass of the while loop over the decoded page resp; next tells whether
\* another page is requested
LoopBody(l, resp) ==
  LET items == PageItems(resp).a
      normalized == [i \in 1..Len(items) |-> Normalize(items[i]).value]
      allChars == l.allChars \o normalized
      meta == Coalesce(Get(resp, "meta"), Obj([none |-> Undefined]))
      perTotal == Coalesce(Get(meta, "perTotal"),
                           IF Len(items) < perPage THEN Num(Len(allChars))
                           ELSE Num(Len(allChars) + perPage))
      short == Len(items) < perPage
      page == IF short THEN l.page ELSE l.page + 1
      next == ~short /\ ~(page > MaxPage) /\ LengthBelow(Len(allChars), perTotal)
  IN [locals |-> [l EXCEPT !.allChars = allChars, !.perTotal = perTotal,
                           !.page = page,
                           !.requested = IF next THEN Append(@, CharactersPath(page))
                                         ELSE @],
      next |-> next]

\* a record of the page cannot be normalized
PageThrows(resp) ==
  \/ resp.t \in {"null", "undefined"}
  \/ PageItems(resp).t # "array"
  \/ \E i \in 1..Len(PageItems(resp).a) : ~Normalize(PageItems(resp).a[i]).ok

\* variant of CharactersArtifact: meta.perTotal is reckoned from the page number
CharactersArtifact_PageTotal(l) ==
  JSONText(Obj([items |-> Arr(l.allChars),
                meta |-> Obj([perTotal |-> Num(l.page * perPage),
                              perPage |-> Num(perPage),
                              page |-> Num(l.page)])]))

\* JSON.stringify({ items: allChars, meta: { perTotal, perPage, page } })
CharactersArtifact(l) ==
  JSONText(Obj([items |-> Arr(l.allChars),
                meta |-> Obj([perTotal |-> Num(Len(l.allChars)),
                              perPage |-> Num(perPage),
                              page |-> Num(l.page)])]))

\* variant of traitsCount: only an items field is counted
traitsCount_ItemsOnly(traits) ==
  IF Get(traits, "items").t = "array" THEN Len(Get(traits, "items").a) ELSE 0

\* Array.isArray(traits) ? traits.length : (traits.items?.length ?? 0)
traitsCount(traits) ==
  IF traits.t = "array" THEN Len(traits.a)
  ELSE IF Get(traits, "items").t = "array" THEN Len(Get(traits, "items").a)
  ELSE 0

\* variant of MergeSet: the document is replaced by the fields
MergeSet_Replace(doc, fields) == fields

\* set(fields, { merge: true }) on a document that is absent or present
MergeSet(doc, fields) ==
  IF doc = Absent THEN fields
  ELSE [k \in DOMAIN doc \cup DOMAIN fields |->
          IF k \in DOMAIN fields THEN fields[k] ELSE doc[k]]

syncSucceeded(nTraits, nChars) ==
  [status |-> 200,
   body |-> [ok |-> TRUE,
             written |-> [traits |-> "datasets/traits.json",
                          characters |-> "datasets/characters.json"],
             counts |-> [traits |-> nTraits, characters |-> nChars]]]

\* the catch block of syncGameRef
syncFailed(e) == [status |-> 500, body |-> [ok |-> FALSE, error |-> e]]

\* the locals of syncGameRef once the token is there; requested is the history
\* of the requests sent to the game API, answered counts the page requests
\* that have been answered
SyncLocals(tok) ==
  [access_token |-> Get(tok, "access_token"),
   traits |-> Undefined,
   page |-> 1,
   allChars |-> <<>>,
   perTotal |-> Infinity,
   requested |-> <<TraitsPath>>,
   answered |-> 0]

\* the response a handler writes when its await getAppAccessToken() is over
Finish(h, outcome) ==
  IF h = "oauthClientCreds" THEN oauthClientCredsFinish(outcome)
  ELSE IF h = "syncGameRef" THEN syncFailed(outcome.error)
  ELSE None

\* the handler's continuation after await getAppAccessToken(): syncGameRef
\* goes on to request the traits, the others respond
Proceed(p, h, outcome) ==
  IF h = "syncGameRef" /\ outcome.ok
  THEN /\ sync' = [sync EXCEPT ![p] = SyncLocals(outcome.value)]
       /\ pc' = [pc EXCEPT ![p] = "fetchTraits"]
       /\ res' = [res EXCEPT ![p] = None]
  ELSE /\ res' = [res EXCEPT ![p] = Finish(h, outcome)]
       /\ pc' = [pc EXCEPT ![p] = "done"]
       /\ UNCHANGED sync

\* ---------------------------------------------------------------- msfProxy
\* Texts that the code takes apart are sequences of units: a unit is a run of
\* plain characters ("msf_at", "tok"), one of the characters = ; % and space,
\* or a percent escape ("%3D").
Escapes == [c \in {"=", ";", "%", " "} |->
              CASE c = "=" -> "%3D" [] c = ";" -> "%3B"
                [] c = "%" -> "%25" [] c = " " -> "%20"]

\* encodeURIComponent(s)
encodeURIComponent(s) ==
  [i \in 1..Len(s) |-> IF s[i] \in DOMAIN Escapes THEN Escapes[s[i]] ELSE s[i]]

URIError == [message |-> "URI malformed"]

\* decodeURIComponent(s): a % that starts no escape throws
decodeURIComponent(s) ==
  IF \E i \in 1..Len(s) : s[i] = "%" THEN Throw(URIError)
  ELSE Return([i \in 1..Len(s) |->
                 IF \E c \in DOMAIN Escapes : Escapes[c] = s[i]
                 THEN CHOOSE c \in DOMAIN Escapes : Escapes[c] = s[i]
                 ELSE s[i]])

\* s.split(sep) for a one-character separator
RECURSIVE Split(_, _)
Split(s, sep) ==
  IF \A i \in 1..Len(s) : s[i] # sep THEN <<s>>
  ELSE LET i == CHOOSE i \in 1..Len(s) :
                  s[i] = sep /\ \A j \in 1..(i - 1) : s[j] # sep
       IN <<SubSeq(s, 1, i - 1)>> \o Split(SubSeq(s, i + 1, Len(s)), sep)

\* the leading spaces of s removed
RECURSIVE TrimStart(_)
TrimStart(s) == IF Len(s) > 0 /\ s[1] = " " THEN TrimStart(Tail(s)) ELSE s

\* raw.split(/;\s*/)
SplitCookies(raw) ==
  LET parts == Split(raw, ";")
  IN [i \in 1..Len(parts) |-> IF i = 1 THEN parts[i] ELSE TrimStart(parts[i])]

\* getCookie(req, name): the decoded value of the first part whose key is
\* name, Null when there is none; header is Undefined or the cookie header
getCookie(header, name) ==
  LET raw == IF header = Undefined THEN <<>> ELSE header.u
      parts == SplitCookies(raw)
      kv == [i \in 1..Len(parts) |-> Split(parts[i], "=")]
      hits == {i \in 1..Len(parts) : kv[i][1] = name}
  IN IF hits = {} THEN Return(Null)
     ELSE LET i == CHOOSE i \in hits : \A j \in hits : i <= j
              v == IF Len(kv[i]) >= 2 THEN kv[i][2] ELSE <<>>
              d == decodeURIComponent(v)
          IN IF d.ok THEN Return([t |-> "string", u |-> d.value]) ELSE d

\* !token
NoToken(tok) == tok.t = "null" \/ tok.u = <<>>

\* the value of the Set-Cookie header of oauthClientCreds as the browser
\* sends it back: msf_at=<encodeURIComponent(access_token)>
MintedCookie(tok) == <<"msf_at", "=">> \o encodeURIComponent(tok)

\* a path is the sequence of its segments: "game/v1/x" is <<"game","v1","x">>,
\* "game/v1/" is <<"game","v1","">>, "" is <<>>
\* /^game\/v1\//.test(path)
AllowedPath(path) == Len(path) >= 3 /\ path[1] = "game" /\ path[2] = "v1"

\* the path of new URL(url): the dot segments are resolved
RECURSIVE RemoveDots(_, _)
RemoveDots(done, rest) ==
  IF rest = <<>> THEN done
  ELSE IF rest[1] = "." THEN RemoveDots(done, Tail(rest))
  ELSE IF rest[1] = ".."
       THEN RemoveDots(IF done = <<>> THEN <<>> ELSE SubSeq(done, 1, Len(done) - 1),
                       Tail(rest))
  ELSE RemoveDots(Append(done, rest[1]), Tail(rest))

\* the values of the params MSF_API_BASE (origin and path) and MSF_X_API_KEY
MSF_API_BASE == [origin |-> "https://api.msf", path |-> <<"">>]
MSF_X_API_KEY == "x-key"

\* MSF_API_BASE.value().replace(/\/$/, "")
StripSlash(base) ==
  IF base.path # <<>> /\ base.path[Len(base.path)] = ""
  THEN [base EXCEPT !.path = SubSeq(@, 1, Len(@) - 1)]
  ELSE base

\* variant of ProxyRequest: the bearer is the application's cached token
ProxyRequest_AppToken(path, tok) ==
  [method |-> "GET",
   origin |-> StripSlash(MSF_API_BASE).origin,
   path |-> RemoveDots(<<>>, StripSlash(MSF_API_BASE).path \o path),
   headers |-> [xApiKey |-> MSF_X_API_KEY,
                Authorization |-> <<"Bearer",
                   IF cachedToken = Null THEN tok ELSE <<cachedToken.access_token.s>>>>]]

\* fetch(url, { headers }): the request that goes out
ProxyRequest(path, tok) ==
  [method |-> "GET",
   origin |-> StripSlash(MSF_API_BASE).origin,
   path |-> RemoveDots(<<>>, StripSlash(MSF_API_BASE).path \o path),
   headers |-> [xApiKey |-> MSF_X_API_KEY, Authorization |-> <<"Bearer", tok>>]]

\* a Content-Type header value: the media type and its charset parameter
\* ("" when it has none)
MediaType(type, charset) == [t |-> "string", type |-> type, charset |-> charset]

\* res.send(body) with a string body: the Content-Type the response goes out
\* with, given the one set before (Null when none was set); Express puts
\* text/html where none is set and sets the charset parameter to utf-8
SendContentType(ct) ==
  IF ct = Null THEN MediaType("text/html", "utf-8")
  ELSE [ct EXCEPT !.charset = "utf-8"]

BadRequest ==
  [status |-> 400, contentType |-> MediaType("application/json", "utf-8"),
   body |-> [ok |-> FALSE, error |-> [message |-> "path must start with game/v1/..."]]]
Unauthorized ==
  [status |-> 401, contentType |-> MediaType("application/json", "utf-8"),
   body |-> [ok |-> FALSE, error |-> [message |-> "missing msf_at cookie"]]]
\* the catch block of msfProxy
proxyFailed(e) ==
  [status |-> 500, contentType |-> MediaType("application/json", "utf-8"),
   body |-> [ok |-> FALSE, error |-> e]]
\* res.status(upstream.status); Content-Type if the upstream has one; send(body)
Relay(up) ==
  [status |-> up.status,
   contentType |-> SendContentType(IF up.contentType # Null /\ up.contentType.type # ""
                                   THEN up.contentType ELSE Null),
   body |-> up.body]

\* ---------------------------------------------------------------- datasets
\* the pieces the texts of dataset names are made of, and their lower case
NameUnits ==
  {"traits", "Traits", "TRAITS", "characters", "Characters", "meta", ".json",
   ".JSON", "."}
toLowerCase(s) ==
  [i \in DOMAIN s |->
     CASE s[i] \in {"Traits", "TRAITS"} -> "traits"
       [] s[i] = "Characters" -> "characters"
       [] s[i] = ".JSON" -> ".json"
       [] OTHER -> s[i]]

\* raw.replace(/\.(json)?$/, "")
StripJson(s) ==
  IF Len(s) > 0 /\ s[Len(s)] \in {".json", "."} THEN SubSeq(s, 1, Len(s) - 1)
  ELSE s

\* ((m?.[1]) || String(req.query.name || "")).toLowerCase() without its
\* ending: m[1] is the path segment after /datasets/ (<<>> where the path has
\* none), the query name is <<>> where the query has none
DatasetName(rq) ==
  StripJson(toLowerCase(IF rq.segment # <<>> THEN rq.segment ELSE rq.queryName))

ValidName(name) == name = <<"traits">> \/ name = <<"characters">>

\* `datasets/${name}.json` for a valid name
filePath(name) ==
  IF name = <<"traits">> THEN "datasets/traits.json" ELSE "datasets/characters.json"

NameRejected ==
  [status |-> 400, contentType |-> MediaType("application/json", "utf-8"),
   body |-> [ok |-> FALSE,
             error |-> [message |-> "name must be traits or characters"]]]
NotFound(path) ==
  [status |-> 404, contentType |-> MediaType("application/json", "utf-8"),
   body |-> [ok |-> FALSE, error |-> [message |-> "Not found", path |-> path]]]
datasetsFailed(e) ==
  [status |-> 500, contentType |-> MediaType("application/json", "utf-8"),
   body |-> [ok |-> FALSE, error |-> e]]

\* res.status(200).send(buf) after the two setHeader calls: a Buffer is sent
\* as it is, with the Content-Type that was set
Download(buf) ==
  [status |-> 200, contentType |-> MediaType("application/json", ""),
   cacheControl |-> "public, max-age=300", body |-> buf]

\* ------------------------------------------------------------------ init
\* no sync run has started
NoRuns == [before |-> None, writes |-> <<>>]

\* no sync has run: nothing stored, an upstream without data
NoSync(n) ==
  /\ sync = [p \in 1..n |-> None]
  /\ bucket = [path \in Paths |-> Absent]
  /\ metaDoc = Absent
  /\ upstream = [traits |-> Arr(<<>>), full |-> 0, short |-> 0,
                 envelope |-> FALSE, perTotal |-> Undefined, odd |-> None]

InitWith(n) ==
  /\ NoSync(n)
  /\ config \in ConfigSet
  /\ now = 0
  /\ cachedToken = Null
  /\ pc = [p \in 1..n |-> "idle"]
  /\ handler = [p \in 1..n |-> "none"]
  /\ req = [p \in 1..n |-> None]
  /\ tokenReq = [p \in 1..n |-> None]
  /\ tokenResp = [p \in 1..n |-> None]
  /\ token = [p \in 1..n |-> None]
  /\ res = [p \in 1..n |-> None]
  /\ proxy = [p \in 1..n |-> None]
  /\ runLog = NoRuns
  /\ ds = [p \in 1..n |-> None]
  /\ client = None
  /\ tokenFetches = 0
  /\ lastStore = None
  /\ calls = 0
  /\ ticks = 0

\* --------------------------------------------------------------- actions
TickSet == {500, 59000, 3480000}

\* time passes
Tick ==
  /\ ticks < MaxTicks
  /\ \E d \in TickSet : now' = now + d
  /\ ticks' = ticks + 1
  /\ UNCHANGED <<config, cachedToken, handler, req, pc, tokenReq,
                 tokenResp, token, res, tokenFetches, lastStore, calls>>
  /\ UNCHANGED syncVars
  /\ UNCHANGED proxy
  /\ UNCHANGED <<runLog, ds, client>>

\* getAppAccessToken up to its first await, entered from handler h
Enter(p, h, rq) ==
  /\ handler' = [handler EXCEPT ![p] = h]
  /\ req' = [req EXCEPT ![p] = rq]
  /\ calls' = calls + 1
  /\ tokenResp' = [tokenResp EXCEPT ![p] = None]
  /\ IF CacheValid(cachedToken, now)
     THEN /\ token' = [token EXCEPT ![p] = Return(CachedResult(cachedToken, now))]
          /\ Proceed(p, h, Return(CachedResult(cachedToken, now)))
          /\ tokenReq' = [tokenReq EXCEPT ![p] = None]
          /\ UNCHANGED tokenFetches
     ELSE /\ tokenReq' = [tokenReq EXCEPT ![p] = TokenRequest(config)]
          /\ tokenFetches' = tokenFetches + 1
          /\ token' = [token EXCEPT ![p] = None]
          /\ res' = [res EXCEPT ![p] = None]
          /\ pc' = [pc EXCEPT ![p] = "fetchToken"]
          /\ UNCHANGED sync
  /\ UNCHANGED <<config, now, cachedToken, lastStore, ticks>>
  /\ UNCHANGED <<bucket, metaDoc, upstream>>
  /\ UNCHANGED proxy
  /\ UNCHANGED <<ds, client>>

\* a direct call of getAppAccessToken
getAppAccessToken(p) ==
  /\ pc[p] = "idle"
  /\ calls < MaxCalls
  /\ Enter(p, "getAppAccessToken", None)
  /\ UNCHANGED runLog

\* the oauthClientCreds handler up to its first await
oauthClientCreds(p) ==
  /\ pc[p] = "idle"
  /\ calls < MaxCalls
  /\ \E method \in {"POST", "GET"} :
       IF method # "POST" \/ Len(missing(config)) > 0
       THEN /\ handler' = [handler EXCEPT ![p] = "oauthClientCreds"]
            /\ req' = [req EXCEPT ![p] = [method |-> method]]
            /\ res' = [res EXCEPT ![p] =
                         IF method # "POST" THEN MethodNotAllowed
                         ELSE ConfigMissing(missing(config))]
            /\ pc' = [pc EXCEPT ![p] = "done"]
            /\ token' = [token EXCEPT ![p] = None]
            /\ tokenReq' = [tokenReq EXCEPT ![p] = None]
            /\ tokenResp' = [tokenResp EXCEPT ![p] = None]
            /\ calls' = calls + 1
            /\ UNCHANGED <<config, now, cachedToken, tokenFetches, lastStore, ticks>>
            /\ UNCHANGED syncVars
       ELSE Enter(p, "oauthClientCreds", [method |-> method])
  /\ UNCHANGED proxy
  /\ UNCHANGED <<runLog, ds, client>>

\* the token endpoint answers the request of p (an empty URL reaches no
\* endpoint: that fetch can only reject)
TokenEndpointRespond(p) ==
  /\ pc[p] = "fetchToken"
  /\ tokenReq[p].url # ""
  /\ \E r \in TokenResponses : tokenResp' = [tokenResp EXCEPT ![p] = r]
  /\ pc' = [pc EXCEPT ![p] = "tokenText"]
  /\ UNCHANGED <<config, now, cachedToken, handler, req, tokenReq,
                 token, res, tokenFetches, lastStore, calls, ticks>>
  /\ UNCHANGED syncVars
  /\ UNCHANGED proxy
  /\ UNCHANGED <<runLog, ds, client>>

\* variant of TokenFetchRejects: a failed request clears the cache
TokenFetchRejects_ClearCache(p) ==
  /\ pc[p] = "fetchToken"
  /\ token' = [token EXCEPT ![p] = Throw(FetchFailed)]
  /\ Proceed(p, handler[p], Throw(FetchFailed))
  /\ UNCHANGED <<config, now, handler, req, tokenReq,
                 tokenResp, tokenFetches, lastStore, calls, ticks>>
  /\ cachedToken' = Null
  /\ UNCHANGED <<bucket, metaDoc, upstream>>
  /\ UNCHANGED proxy
  /\ UNCHANGED <<runLog, ds, client>>

\* the request of p fails on the network: fetch rejects
TokenFetchRejects(p) ==
  /\ pc[p] = "fetchToken"
  /\ token' = [token EXCEPT ![p] = Throw(FetchFailed)]
  /\ Proceed(p, handler[p], Throw(FetchFailed))
  /\ UNCHANGED <<config, now, cachedToken, handler, req, tokenReq,
                 tokenResp, tokenFetches, lastStore, calls, ticks>>
  /\ UNCHANGED <<bucket, metaDoc, upstream>>
  /\ UNCHANGED proxy
  /\ UNCHANGED <<runLog, ds, client>>

\* getAppAccessToken after await r.text(), and the handler's continuation
TokenResume(p) ==
  /\ pc[p] = "tokenText"
  /\ LET out == TokenOutcome(tokenResp[p]) IN
       /\ token' = [token EXCEPT ![p] = out]
       /\ Proceed(p, handler[p], out)
       /\ IF out.ok
          THEN /\ cachedToken' = NewCachedToken(cachedToken, out.value, now)
               /\ lastStore' = [by |-> p, at |-> now, json |-> out.value,
                                seq |-> IF lastStore = None THEN 1
                                        ELSE lastStore.seq + 1]
          ELSE UNCHANGED <<cachedToken, lastStore>>
  /\ UNCHANGED <<config, now, handler, req, tokenReq, tokenResp,
                 tokenFetches, calls, ticks>>
  /\ UNCHANGED <<bucket, metaDoc, upstream>>
  /\ UNCHANGED proxy
  /\ UNCHANGED <<runLog, ds, client>>

\* the syncGameRef handler up to its first await
syncGameRef(p) ==
  /\ pc[p] = "idle"
  /\ calls < MaxCalls
  /\ Enter(p, "syncGameRef", None)
  /\ runLog' = [before |-> [bucket |-> bucket, metaDoc |-> metaDoc],
                writes |-> <<>>]

\* variant of UpstreamFails: a request that failed is sent a second time
UpstreamFails_RetryOnce(p) ==
  /\ pc[p] \in {"fetchTraits", "fetchPage"}
  /\ LET last == sync[p].requested[Len(sync[p].requested)]
         sent == {i \in 1..Len(sync[p].requested) : sync[p].requested[i] = last}
     IN IF Cardinality(sent) = 1
        THEN /\ sync' = [sync EXCEPT ![p].requested = Append(@, last),
                                     ![p].answered =
                                       IF pc[p] = "fetchPage" THEN @ + 1 ELSE @]
             /\ UNCHANGED <<pc, res>>
        ELSE /\ \E status \in {401, 500} :
                  res' = [res EXCEPT ![p] = syncFailed(UpstreamHTTPError(last, status))]
             /\ pc' = [pc EXCEPT ![p] = "done"]
             /\ sync' = [sync EXCEPT ![p].answered =
                            IF pc[p] = "fetchPage" THEN @ + 1 ELSE @]
  /\ UNCHANGED <<config, now, cachedToken, handler, req, tokenReq, tokenResp,
                 token, tokenFetches, lastStore, calls, ticks>>
  /\ UNCHANGED <<bucket, metaDoc, upstream>>
  /\ UNCHANGED proxy
  /\ UNCHANGED <<runLog, ds, client>>

\* a request to the game API is answered with a status that is not ok:
\* fetchJSON throws, the handler answers 500
UpstreamFails(p) ==
  /\ pc[p] \in {"fetchTraits", "fetchPage"}
  /\ \E status \in {401, 500} :
       res' = [res EXCEPT ![p] =
                 syncFailed(UpstreamHTTPError(sync[p].requested[Len(sync[p].requested)],
                                              status))]
  /\ pc' = [pc EXCEPT ![p] = "done"]
  /\ sync' = [sync EXCEPT ![p].answered =
                 IF pc[p] = "fetchPage" THEN @ + 1 ELSE @]
  /\ UNCHANGED <<config, now, cachedToken, handler, req, tokenReq, tokenResp,
                 token, tokenFetches, lastStore, calls, ticks>>
  /\ UNCHANGED <<bucket, metaDoc, upstream>>
  /\ UNCHANGED proxy
  /\ UNCHANGED <<runLog, ds, client>>

\* variant of TraitsRespond: the traits are saved as soon as they arrive
TraitsRespond_SaveEarly(p) ==
  /\ pc[p] = "fetchTraits"
  /\ sync' = [sync EXCEPT ![p].traits = upstream.traits,
                          ![p].requested = Append(@, CharactersPath(1))]
  /\ pc' = [pc EXCEPT ![p] = "fetchPage"]
  /\ bucket' = [bucket EXCEPT !["datasets/traits.json"] = JSONText(upstream.traits)]
  /\ UNCHANGED <<config, now, cachedToken, handler, req, tokenReq, tokenResp,
                 token, res, tokenFetches, lastStore, calls, ticks>>
  /\ UNCHANGED <<metaDoc, upstream>>
  /\ UNCHANGED proxy
  /\ UNCHANGED <<runLog, ds, client>>

\* the traits arrive; the loop is entered and page 1 is requested
TraitsRespond(p) ==
  /\ pc[p] = "fetchTraits"
  /\ sync' = [sync EXCEPT ![p].traits = upstream.traits,
                          ![p].requested = Append(@, CharactersPath(1))]
  /\ pc' = [pc EXCEPT ![p] = "fetchPage"]
  /\ UNCHANGED <<config, now, cachedToken, handler, req, tokenReq, tokenResp,
                 token, res, tokenFetches, lastStore, calls, ticks>>
  /\ UNCHANGED <<bucket, metaDoc, upstream>>
  /\ UNCHANGED proxy
  /\ UNCHANGED <<runLog, ds, client>>

\* a page arrives: one pass of the loop, then the next request or the first
\* save
PageRespond(p) ==
  /\ pc[p] = "fetchPage"
  /\ LET resp == UpstreamPage(upstream, sync[p].page) IN
       IF PageThrows(resp)
       THEN /\ res' = [res EXCEPT ![p] = syncFailed(TypeError)]
            /\ pc' = [pc EXCEPT ![p] = "done"]
            /\ sync' = [sync EXCEPT ![p].answered = @ + 1]
       ELSE /\ sync' = [sync EXCEPT ![p] =
                           [LoopBody(sync[p], resp).locals EXCEPT !.answered = @ + 1]]
            /\ pc' = [pc EXCEPT ![p] = IF LoopBody(sync[p], resp).next
                                       THEN "fetchPage" ELSE "saveTraits"]
            /\ UNCHANGED res
  /\ UNCHANGED <<config, now, cachedToken, handler, req, tokenReq, tokenResp,
                 token, tokenFetches, lastStore, calls, ticks>>
  /\ UNCHANGED <<bucket, metaDoc, upstream>>
  /\ UNCHANGED proxy
  /\ UNCHANGED <<runLog, ds, client>>

\* variant of SaveTraits: the characters are saved in the place of the traits
SaveTraits_CharsFirst(p) ==
  /\ pc[p] = "saveTraits"
  /\ bucket' = [bucket EXCEPT !["datasets/characters.json"] = CharactersArtifact(sync[p])]
  /\ pc' = [pc EXCEPT ![p] = "saveChars"]
  /\ UNCHANGED <<config, now, cachedToken, handler, req, tokenReq, tokenResp,
                 token, res, tokenFetches, lastStore, calls, ticks>>
  /\ UNCHANGED <<sync, metaDoc, upstream>>
  /\ UNCHANGED proxy
  /\ runLog' = [runLog EXCEPT !.writes = Append(@, "datasets/characters.json")]
  /\ UNCHANGED <<ds, client>>

\* datasets/traits.json is saved; the characters save is started
SaveTraits(p) ==
  /\ pc[p] = "saveTraits"
  /\ bucket' = [bucket EXCEPT !["datasets/traits.json"] = JSONText(sync[p].traits)]
  /\ pc' = [pc EXCEPT ![p] = "saveChars"]
  /\ UNCHANGED <<config, now, cachedToken, handler, req, tokenReq, tokenResp,
                 token, res, tokenFetches, lastStore, calls, ticks>>
  /\ UNCHANGED <<sync, metaDoc, upstream>>
  /\ UNCHANGED proxy
  /\ runLog' = [runLog EXCEPT !.writes = Append(@, "datasets/traits.json")]
  /\ UNCHANGED <<ds, client>>

\* variant of SaveChars: the records are added to the ones already stored
SaveChars_Append(p) ==
  /\ pc[p] = "saveChars"
  /\ bucket' = [bucket EXCEPT !["datasets/characters.json"] =
                  IF @ = Absent THEN CharactersArtifact(sync[p])
                  ELSE CharactersArtifact(
                         [sync[p] EXCEPT !.allChars = Get(bucket["datasets/characters.json"].value, "items").a \o sync[p].allChars])]
  /\ IF sync[p].traits.t \in {"null", "undefined"}
     THEN /\ res' = [res EXCEPT ![p] = syncFailed(TypeError)]
          /\ pc' = [pc EXCEPT ![p] = "done"]
     ELSE /\ pc' = [pc EXCEPT ![p] = "setMeta"]
          /\ UNCHANGED res
  /\ UNCHANGED <<config, now, cachedToken, handler, req, tokenReq, tokenResp,
                 token, tokenFetches, lastStore, calls, ticks>>
  /\ UNCHANGED <<sync, metaDoc, upstream>>
  /\ UNCHANGED proxy
  /\ runLog' = [runLog EXCEPT !.writes = Append(@, "datasets/characters.json")]
  /\ UNCHANGED <<ds, client>>

\* datasets/characters.json is saved; the counts are taken and the metadata
\* write is started (traits.items of a null traits throws)
SaveChars(p) ==
  /\ pc[p] = "saveChars"
  /\ bucket' = [bucket EXCEPT !["datasets/characters.json"] = CharactersArtifact(sync[p])]
  /\ IF sync[p].traits.t \in {"null", "undefined"}
     THEN /\ res' = [res EXCEPT ![p] = syncFailed(TypeError)]
          /\ pc' = [pc EXCEPT ![p] = "done"]
     ELSE /\ pc' = [pc EXCEPT ![p] = "setMeta"]
          /\ UNCHANGED res
  /\ UNCHANGED <<config, now, cachedToken, handler, req, tokenReq, tokenResp,
                 token, tokenFetches, lastStore, calls, ticks>>
  /\ UNCHANGED <<sync, metaDoc, upstream>>
  /\ UNCHANGED proxy
  /\ runLog' = [runLog EXCEPT !.writes = Append(@, "datasets/characters.json")]
  /\ UNCHANGED <<ds, client>>

\* meta/datasets is set with merge; the handler answers
SetMeta(p) ==
  /\ pc[p] = "setMeta"
  /\ metaDoc' = MergeSet(metaDoc,
                   [updatedAt |-> now,
                    counts |-> [traits |-> traitsCount(sync[p].traits),
                                characters |-> Len(sync[p].allChars)]])
  /\ res' = [res EXCEPT ![p] = syncSucceeded(traitsCount(sync[p].traits),
                                             Len(sync[p].allChars))]
  /\ pc' = [pc EXCEPT ![p] = "done"]
  /\ UNCHANGED <<config, now, cachedToken, handler, req, tokenReq, tokenResp,
                 token, tokenFetches, lastStore, calls, ticks>>
  /\ UNCHANGED <<sync, bucket, upstream>>
  /\ UNCHANGED proxy
  /\ runLog' = [runLog EXCEPT !.writes = Append(@, "meta/datasets")]
  /\ UNCHANGED <<ds, client>>

\* variant of StorageFails: a metadata write that fails has set updatedAt
StorageFails_PartialMeta(p) ==
  /\ pc[p] \in {"saveTraits", "saveChars", "setMeta"}
  /\ res' = [res EXCEPT ![p] = syncFailed(PersistenceError)]
  /\ pc' = [pc EXCEPT ![p] = "done"]
  /\ metaDoc' = IF pc[p] = "setMeta" THEN MergeSet(metaDoc, [updatedAt |-> now])
                ELSE metaDoc
  /\ UNCHANGED <<config, now, cachedToken, handler, req, tokenReq, tokenResp,
                 token, tokenFetches, lastStore, calls, ticks>>
  /\ UNCHANGED <<sync, bucket, upstream>>
  /\ UNCHANGED proxy
  /\ UNCHANGED <<runLog, ds, client>>

\* variant of StorageFails: a failing run puts the artifacts back
StorageFails_Rollback(p) ==
  /\ pc[p] \in {"saveTraits", "saveChars", "setMeta"}
  /\ res' = [res EXCEPT ![p] = syncFailed(PersistenceError)]
  /\ pc' = [pc EXCEPT ![p] = "done"]
  /\ bucket' = runLog.before.bucket
  /\ UNCHANGED <<config, now, cachedToken, handler, req, tokenReq, tokenResp,
                 token, tokenFetches, lastStore, calls, ticks>>
  /\ UNCHANGED <<sync, metaDoc, upstream>>
  /\ UNCHANGED proxy
  /\ UNCHANGED <<runLog, ds, client>>

\* a save or the metadata write fails: the handler answers 500
StorageFails(p) ==
  /\ pc[p] \in {"saveTraits", "saveChars", "setMeta"}
  /\ res' = [res EXCEPT ![p] = syncFailed(PersistenceError)]
  /\ pc' = [pc EXCEPT ![p] = "done"]
  /\ UNCHANGED <<config, now, cachedToken, handler, req, tokenReq, tokenResp,
                 token, tokenFetches, lastStore, calls, ticks>>
  /\ UNCHANGED syncVars
  /\ UNCHANGED proxy
  /\ UNCHANGED <<runLog, ds, client>>

\* the paths a caller may ask the proxy for
ProxyPaths ==
  {<<>>, <<"admin", "v1", "delete">>, <<"game", "v1">>, <<"game", "v2", "x">>,
   <<"", "game", "v1", "x">>, <<"game", "v1", "">>,
   <<"game", "v1", "characters">>, <<"game", "v1", ".", "traits">>,
   <<"game", "v1", "..", "..", "admin", "v1", "delete">>}

\* tokens a caller may hold in its msf_at cookie
CallerTokens == {<<"tokB">>, <<"tok", "=", "=">>, <<"a", " ", "b", "%", ";">>}

Header(u) == [t |-> "string", u |-> u]

\* the cookie header of a request, with the token the caller holds (None when
\* the header was not made from a token)
CookieHeaders ==
  {[header |-> Undefined, callerToken |-> None],
   [header |-> Header(<<>>), callerToken |-> None],
   [header |-> Header(<<"theme", "=", "dark">>), callerToken |-> None],
   [header |-> Header(<<"msf_at">>), callerToken |-> None],
   [header |-> Header(<<"msf_at", "=">>), callerToken |-> None],
   [header |-> Header(<<"theme", "=", "dark", ";", " ", "msf_at", "=">>),
    callerToken |-> None],
   [header |-> Header(<<"msf_at", "=", "%">>), callerToken |-> None]}
  \cup {[header |-> Header(MintedCookie(tk)), callerToken |-> Header(tk)] :
          tk \in CallerTokens}
  \cup {[header |-> Header(<<"theme", "=", "dark", ";", " ">> \o MintedCookie(tk)),
         callerToken |-> Header(tk)] : tk \in CallerTokens}

\* what the game API may answer to a forwarded request
ProxyResponses ==
  [status : {200, 404},
   contentType : {MediaType("application/json", ""),
                  MediaType("application/json", "utf-8"), Null},
   body : {[text |-> "{\"data\":[]}"]}]

\* the msfProxy handler up to its first await
msfProxy(p) ==
  /\ pc[p] = "idle"
  /\ calls < MaxCalls
  /\ \E method \in {"GET", "POST"}, path \in ProxyPaths, c \in CookieHeaders :
       LET tok == getCookie(c.header, <<"msf_at">>) IN
         /\ req' = [req EXCEPT ![p] = [method |-> method, path |-> path,
                                       cookie |-> c.header,
                                       callerToken |-> c.callerToken]]
         /\ IF ~AllowedPath(path)
            THEN /\ res' = [res EXCEPT ![p] = BadRequest]
                 /\ pc' = [pc EXCEPT ![p] = "done"]
                 /\ proxy' = [proxy EXCEPT ![p] = [sent |-> <<>>, received |-> None]]
            ELSE IF ~tok.ok
            THEN /\ res' = [res EXCEPT ![p] = proxyFailed(tok.error)]
                 /\ pc' = [pc EXCEPT ![p] = "done"]
                 /\ proxy' = [proxy EXCEPT ![p] = [sent |-> <<>>, received |-> None]]
            ELSE IF NoToken(tok.value)
            THEN /\ res' = [res EXCEPT ![p] = Unauthorized]
                 /\ pc' = [pc EXCEPT ![p] = "done"]
                 /\ proxy' = [proxy EXCEPT ![p] = [sent |-> <<>>, received |-> None]]
            ELSE /\ res' = [res EXCEPT ![p] = None]
                 /\ pc' = [pc EXCEPT ![p] = "proxyFetch"]
                 /\ proxy' = [proxy EXCEPT ![p] =
                                [sent |-> <<ProxyRequest(path, tok.value.u)>>,
                                 received |-> None]]
  /\ handler' = [handler EXCEPT ![p] = "msfProxy"]
  /\ calls' = calls + 1
  /\ UNCHANGED <<config, now, cachedToken, tokenReq, tokenResp, token,
                 tokenFetches, lastStore, ticks>>
  /\ UNCHANGED syncVars
  /\ UNCHANGED <<runLog, ds, client>>

\* the game API answers the forwarded request; the answer is relayed
ProxyUpstreamResponds(p) ==
  /\ pc[p] = "proxyFetch"
  /\ \E up \in ProxyResponses :
       /\ res' = [res EXCEPT ![p] = Relay(up)]
       /\ proxy' = [proxy EXCEPT ![p].received = up]
  /\ pc' = [pc EXCEPT ![p] = "done"]
  /\ UNCHANGED <<config, now, cachedToken, handler, req, tokenReq, tokenResp,
                 token, tokenFetches, lastStore, calls, ticks>>
  /\ UNCHANGED syncVars
  /\ UNCHANGED <<runLog, ds, client>>

\* the forwarded request fails on the network: the handler answers 500
ProxyFetchRejects(p) ==
  /\ pc[p] = "proxyFetch"
  /\ res' = [res EXCEPT ![p] = proxyFailed(FetchFailed)]
  /\ pc' = [pc EXCEPT ![p] = "done"]
  /\ UNCHANGED <<config, now, cachedToken, handler, req, tokenReq, tokenResp,
                 token, tokenFetches, lastStore, calls, ticks, proxy>>
  /\ UNCHANGED syncVars
  /\ UNCHANGED <<runLog, ds, client>>

\* the invocation is over: its slot serves a later request
\* the requests the datasets handler may get
RawNames ==
  {<<>>, <<"traits">>, <<"characters">>, <<"Traits">>, <<"TRAITS", ".JSON">>,
   <<"traits", ".json">>, <<"characters", ".">>, <<"Characters", ".json">>,
   <<"meta">>, <<"meta", ".json">>, <<"traits", ".json", ".json">>,
   <<".json">>, <<"traits", "characters">>}
DatasetRequests == [segment : RawNames, queryName : RawNames]

\* the datasets handler up to await file.exists(); accesses is the history
\* of its calls on the bucket
datasets(p) ==
  /\ pc[p] = "idle"
  /\ calls < MaxCalls
  /\ calls' = calls + 1
  /\ handler' = [handler EXCEPT ![p] = "datasets"]
  /\ \E rq \in DatasetRequests :
       /\ req' = [req EXCEPT ![p] = rq]
       /\ IF ~ValidName(DatasetName(rq))
          THEN /\ res' = [res EXCEPT ![p] = NameRejected]
               /\ pc' = [pc EXCEPT ![p] = "done"]
               /\ ds' = [ds EXCEPT ![p] = [name |-> DatasetName(rq), accesses |-> <<>>]]
          ELSE /\ res' = [res EXCEPT ![p] = None]
               /\ pc' = [pc EXCEPT ![p] = "exists"]
               /\ ds' = [ds EXCEPT ![p] =
                           [name |-> DatasetName(rq),
                            accesses |-> <<<<"exists", filePath(DatasetName(rq))>>>>]]
  /\ UNCHANGED <<config, now, cachedToken, tokenReq, tokenResp, token,
                 tokenFetches, lastStore, ticks>>
  /\ UNCHANGED syncVars
  /\ UNCHANGED <<proxy, runLog, client>>

\* file.exists() resolves: 404, or the download is started
DatasetExists(p) ==
  /\ pc[p] = "exists"
  /\ IF bucket[filePath(ds[p].name)] = Absent
     THEN /\ res' = [res EXCEPT ![p] = NotFound(filePath(ds[p].name))]
          /\ pc' = [pc EXCEPT ![p] = "done"]
          /\ UNCHANGED ds
     ELSE /\ ds' = [ds EXCEPT ![p].accesses =
                       Append(@, <<"download", filePath(ds[p].name)>>)]
          /\ pc' = [pc EXCEPT ![p] = "download"]
          /\ UNCHANGED res
  /\ UNCHANGED <<config, now, cachedToken, handler, req, tokenReq, tokenResp,
                 token, tokenFetches, lastStore, calls, ticks>>
  /\ UNCHANGED syncVars
  /\ UNCHANGED <<proxy, runLog, client>>

\* file.download() resolves: the content is sent
DatasetDownload(p) ==
  /\ pc[p] = "download"
  /\ res' = [res EXCEPT ![p] = Download(bucket[filePath(ds[p].name)])]
  /\ pc' = [pc EXCEPT ![p] = "done"]
  /\ UNCHANGED <<config, now, cachedToken, handler, req, tokenReq, tokenResp,
                 token, tokenFetches, lastStore, calls, ticks>>
  /\ UNCHANGED syncVars
  /\ UNCHANGED <<proxy, runLog, ds, client>>

\* file.exists() or file.download() rejects: the handler answers 500
DatasetReadFails(p) ==
  /\ pc[p] \in {"exists", "download"}
  /\ res' = [res EXCEPT ![p] = datasetsFailed(PersistenceError)]
  /\ pc' = [pc EXCEPT ![p] = "done"]
  /\ UNCHANGED <<config, now, cachedToken, handler, req, tokenReq, tokenResp,
                 token, tokenFetches, lastStore, calls, ticks>>
  /\ UNCHANGED syncVars
  /\ UNCHANGED <<proxy, runLog, ds, client>>

Settle(p) ==
  /\ pc[p] = "done"
  /\ pc' = [pc EXCEPT ![p] = "idle"]
  /\ handler' = [handler EXCEPT ![p] = "none"]
  /\ req' = [req EXCEPT ![p] = None]
  /\ tokenReq' = [tokenReq EXCEPT ![p] = None]
  /\ tokenResp' = [tokenResp EXCEPT ![p] = None]
  /\ token' = [token EXCEPT ![p] = None]
  /\ res' = [res EXCEPT ![p] = None]
  /\ sync' = [sync EXCEPT ![p] = None]
  /\ proxy' = [proxy EXCEPT ![p] = None]
  /\ UNCHANGED <<config, now, cachedToken, tokenFetches, lastStore, calls, ticks>>
  /\ UNCHANGED <<bucket, metaDoc, upstream>>
  /\ ds' = [ds EXCEPT ![p] = None]
  /\ UNCHANGED <<runLog, client>>

Next ==
  \/ Tick
  \/ \E p \in Callers : Settle(p)
  \/ \E p \in Callers : getAppAccessToken(p)
  \/ \E p \in Callers : oauthClientCreds(p)
  \/ \E p \in Callers : TokenEndpointRespond(p)
  \/ \E p \in Callers : TokenFetchRejects(p)
  \/ \E p \in Callers : TokenResume(p)

\* one caller at a time, with the clock
Init == InitWith(1)
Spec == Init /\ [][Next]_vars

\* overlapping callers at one instant
InitConc == InitWith(NumCallers)
NextConc ==
  \/ \E p \in Callers : Settle(p)
  \/ \E p \in Callers : getAppAccessToken(p)
  \/ \E p \in Callers : oauthClientCreds(p)
  \/ \E p \in Callers : TokenEndpointRespond(p)
  \/ \E p \in Callers : TokenFetchRejects(p)
  \/ \E p \in Callers : TokenResume(p)
SpecConc == InitConc /\ [][NextConc]_vars

\* the data an upstream may hold: its traits, the number of full pages of
\* characters, the size of the page after them, the form of a page
TraitsBodies ==
  {Arr(<<Obj([id |-> Str("t1"), name |-> Str("Fast")])>>),
   Obj([items |-> Arr(<<Obj([id |-> Str("t1")]), Obj([id |-> Str("t2")])>>)])}
ShortSizes == {0, 5, 47}
PerTotals == {Undefined, Num(400), Num(100000), Revised(Num(600), Num(400))}

Upstreams(fulls) ==
  {[traits |-> tr, full |-> f, short |-> sh, envelope |-> FALSE,
    perTotal |-> Undefined, odd |-> None] :
     tr \in TraitsBodies, f \in fulls, sh \in ShortSizes}
  \cup {[traits |-> tr, full |-> f, short |-> sh, envelope |-> TRUE,
          perTotal |-> pt, odd |-> None] :
          tr \in TraitsBodies, f \in fulls, sh \in ShortSizes, pt \in PerTotals}

\* JSON values an upstream may hold where a character record is expected
RawValues ==
  {Null, Num(7), Str("x"), Bool(TRUE), Arr(<<>>), Arr(<<Num(1)>>),
   Obj([level |-> Num(1)]),
   Obj([id |-> Num(0), name |-> Num(42), traits |-> Str("Bio")]),
   Obj([id |-> Null, name |-> Null,
        traits |-> Arr(<<Num(1), Bool(TRUE), Null, Arr(<<Str("a"), Num(2)>>),
                         Obj([k |-> Num(1)])>>)]),
   Obj([id |-> Bool(FALSE), name |-> Obj([en |-> Str("Hero")]),
        imageUrl |-> Str(""), faction |-> Num(0), role |-> Bool(TRUE),
        stats |-> Str("high")]),
   Obj([id |-> Str("c5"), name |-> Str("Hero"), traits |-> Arr(<<Str("Bio")>>),
        imageUrl |-> Str("http://img/c5"), faction |-> Str("Avengers"),
        role |-> Str("Tank"), stats |-> Obj([power |-> Num(9)]),
        level |-> Num(3), secret |-> Str("x")]),
   Obj([id |-> Str("c6"), name |-> Str(""), imageUrl |-> Num(5),
        stats |-> Arr(<<Num(1)>>)]),
   Obj([id |-> Arr(<<Num(1), Num(2)>>), name |-> Bool(FALSE), stats |-> Null,
        role |-> Null])}

\* upstreams with one short page whose first item is any JSON value
NormUpstreams ==
  {[traits |-> Arr(<<>>), full |-> 0, short |-> 5, envelope |-> e,
    perTotal |-> Undefined, odd |-> v] : e \in BOOLEAN, v \in RawValues}

\* a warm process that has served used invocations: a token acquired at
\* time 0 is cached and valid
InitWarm(ups, used) ==
  /\ config = [MSF_CLIENT_ID |-> "client-id", MSF_CLIENT_SECRET |-> "s3cret",
               MSF_TOKEN_URL |-> "https://hydra/oauth2/token"]
  /\ now = 1000
  /\ cachedToken = [access_token |-> Str("tokA"), expiresAt |-> 3600000]
  /\ lastStore = [by |-> 1, at |-> 0, seq |-> 1,
                  json |-> Obj([access_token |-> Str("tokA"), expires_in |-> Num(3600)])]
  /\ tokenFetches = 1
  /\ calls = used
  /\ ticks = 0
  /\ pc = [p \in 1..1 |-> "idle"]
  /\ handler = [p \in 1..1 |-> "none"]
  /\ req = [p \in 1..1 |-> None]
  /\ tokenReq = [p \in 1..1 |-> None]
  /\ tokenResp = [p \in 1..1 |-> None]
  /\ token = [p \in 1..1 |-> None]
  /\ res = [p \in 1..1 |-> None]
  /\ proxy = [p \in 1..1 |-> None]
  /\ runLog = NoRuns
  /\ ds = [p \in 1..1 |-> None]
  /\ client = None
  /\ sync = [p \in 1..1 |-> None]
  /\ bucket = [path \in Paths |-> Absent]
  /\ metaDoc = Absent
  /\ upstream \in ups

NextSync ==
  \/ \E p \in Callers : syncGameRef(p)
  \/ \E p \in Callers : UpstreamFails(p)
  \/ \E p \in Callers : TraitsRespond(p)
  \/ \E p \in Callers : PageRespond(p)
  \/ \E p \in Callers : SaveTraits(p)
  \/ \E p \in Callers : SaveChars(p)
  \/ \E p \in Callers : SetMeta(p)
  \/ \E p \in Callers : StorageFails(p)
  \/ \E p \in Callers : Settle(p)

\* one sync run of a warm process against an upstream with few pages
InitSync == InitWarm(Upstreams(0..MaxFullPages), 1)
SpecSync == InitSync /\ [][NextSync]_vars

\* upstreams whose full pages reach the last page the loop may request
CapUpstreams ==
  {u \in Upstreams({MaxPage - 1, MaxPage}) :
     /\ u.traits.t = "array"
     /\ u.short = 47
     /\ \/ ~u.envelope
        \/ u.full = MaxPage /\ u.perTotal = Num(100000)}

\* the last sync run of a warm process, against an upstream with few pages or
\* with about MaxPage full pages
InitCap == InitWarm(Upstreams(0..MaxFullPages) \cup CapUpstreams, MaxCalls - 1)
SpecCap == InitCap /\ [][NextSync]_vars

\* the last sync run of a warm process, against an upstream whose first
\* character record is any JSON value
InitNorm == InitWarm(NormUpstreams, MaxCalls - 1)
SpecNorm == InitNorm /\ [][NextSync]_vars

\* proxy requests to a warm process
NextProxy ==
  \/ \E p \in Callers : msfProxy(p)
  \/ \E p \in Callers : ProxyUpstreamResponds(p)
  \/ \E p \in Callers : ProxyFetchRejects(p)
  \/ \E p \in Callers : Settle(p)
InitProxy == InitWarm({u \in Upstreams({0}) : u.short = 0 /\ ~u.envelope}, 0)
SpecProxy == InitProxy /\ [][NextProxy]_vars

\* what earlier sync runs left in the store: nothing, or artifacts and a
\* metadata document that also holds a field syncGameRef never sets
PreviousBucket ==
  [path \in Paths |->
     IF path = "datasets/traits.json"
     THEN JSONText(Arr(<<Obj([id |-> Str("t0")])>>))
     ELSE CharactersArtifact([allChars |-> <<Normalize(Obj([id |-> Str("old")])).value>>,
                              page |-> 1])]
PreviousMeta ==
  [updatedAt |-> 0, counts |-> [traits |-> 1, characters |-> 1], note |-> "pinned"]

\* upstreams of a few pages, and one whose traits response is null
StoreUpstreams ==
  {u \in Upstreams(0..MaxFullPages) :
     u.short # 47 /\ (u.envelope => u.perTotal = Num(400))}
  \cup {[traits |-> Null, full |-> 0, short |-> 5, envelope |-> FALSE,
          perTotal |-> Undefined, odd |-> None]}

\* the last sync run of a cold process over an empty or a filled store
InitStore ==
  /\ config = [MSF_CLIENT_ID |-> "client-id", MSF_CLIENT_SECRET |-> "s3cret",
               MSF_TOKEN_URL |-> "https://hydra/oauth2/token"]
  /\ now = 1000
  /\ cachedToken = Null
  /\ lastStore = None
  /\ tokenFetches = 0
  /\ calls = MaxCalls - 1
  /\ ticks = 0
  /\ pc = [p \in 1..1 |-> "idle"]
  /\ handler = [p \in 1..1 |-> "none"]
  /\ req = [p \in 1..1 |-> None]
  /\ tokenReq = [p \in 1..1 |-> None]
  /\ tokenResp = [p \in 1..1 |-> None]
  /\ token = [p \in 1..1 |-> None]
  /\ res = [p \in 1..1 |-> None]
  /\ proxy = [p \in 1..1 |-> None]
  /\ runLog = NoRuns
  /\ ds = [p \in 1..1 |-> None]
  /\ client = None
  /\ sync = [p \in 1..1 |-> None]
  /\ bucket \in {[path \in Paths |-> Absent], PreviousBucket}
  /\ metaDoc \in {Absent, PreviousMeta}
  /\ upstream \in StoreUpstreams
NextStore ==
  \/ \E p \in Callers : syncGameRef(p)
  \/ \E p \in Callers : TokenEndpointRespond(p)
  \/ \E p \in Callers : TokenFetchRejects(p)
  \/ \E p \in Callers : TokenResume(p)
  \/ \E p \in Callers : UpstreamFails(p)
  \/ \E p \in Callers : TraitsRespond(p)
  \/ \E p \in Callers : PageRespond(p)
  \/ \E p \in Callers : SaveTraits(p)
  \/ \E p \in Callers : SaveChars(p)
  \/ \E p \in Callers : SetMeta(p)
  \/ \E p \in Callers : StorageFails(p)
  \/ \E p \in Callers : Settle(p)
SpecStore == InitStore /\ [][NextStore]_vars

\* ------------------------------------------------------ the client's call
\* the paths the client asks the proxy for
ClientPaths ==
  {<<"game", "v1", "characters">>, <<"game", "v1", "traits">>,
   <<"player", "v1", "card">>}

\* a request of the client that is not answered yet (status 0); -1 stands
\* for a fetch that rejects
Pending(request) == [request |-> request, status |-> 0]
Rejects == -1
Answered(log, status) == [log EXCEPT ![Len(log)].status = status]
ok(status) == status >= 200 /\ status <= 299

\* the statuses msfProxy may answer a client with: 400 for a path that is not
\* allowed, 401 without the cookie, else the status of the upstream
ProxyStatuses(jar, path) ==
  IF ~AllowedPath(path) THEN {400}
  ELSE IF ~jar THEN {401}
  ELSE {200, 401, 404}

\* the promise of call once the last proxy request is answered
Settled(status) ==
  [state |-> IF ok(status) THEN "resolved" ELSE "rejected", status |-> status]

\* call(path) up to its first await
call ==
  /\ client.pc = "idle"
  /\ client.calls < MaxCalls
  /\ \E path \in ClientPaths :
       client' = [client EXCEPT !.pc = "first", !.path = path,
                                !.calls = @ + 1,
                                !.log = <<Pending("GET /api/msf")>>,
                                !.result = [state |-> "pending", status |-> 0]]
  /\ UNCHANGED <<config, now, cachedToken, handler, req, pc, tokenReq, tokenResp,
                 token, res, tokenFetches, lastStore, calls, ticks>>
  /\ UNCHANGED syncVars
  /\ UNCHANGED <<proxy, runLog, ds>>

\* the first proxy request is answered: on 401 ensureAppToken is entered and
\* asks /api/whoami
FirstAnswered ==
  /\ client.pc = "first"
  /\ \E status \in ProxyStatuses(client.jar, client.path) \cup {Rejects} :
       IF status = 401
       THEN client' = [client EXCEPT
                         !.pc = "whoami",
                         !.log = Append(Answered(@, status), Pending("GET /api/whoami"))]
       ELSE client' = [client EXCEPT !.pc = "idle",
                                     !.log = Answered(@, status),
                                     !.result = Settled(status)]
  /\ UNCHANGED <<config, now, cachedToken, handler, req, pc, tokenReq, tokenResp,
                 token, res, tokenFetches, lastStore, calls, ticks>>
  /\ UNCHANGED syncVars
  /\ UNCHANGED <<proxy, runLog, ds>>

\* variant of WhoAmIAnswered: /api/oauth/client is posted whatever whoami says
WhoAmIAnswered_AlwaysMint ==
  /\ client.pc = "whoami"
  /\ \E status \in {200, 500, Rejects} :
       IF FALSE
       THEN client' = [client EXCEPT
                         !.pc = "retry",
                         !.log = Append(Answered(@, status), Pending("GET /api/msf"))]
       ELSE client' = [client EXCEPT
                         !.pc = "oauth",
                         !.log = Append(Answered(@, status),
                                        Pending("POST /api/oauth/client"))]
  /\ UNCHANGED <<config, now, cachedToken, handler, req, pc, tokenReq, tokenResp,
                 token, res, tokenFetches, lastStore, calls, ticks>>
  /\ UNCHANGED syncVars
  /\ UNCHANGED <<proxy, runLog, ds>>

\* /api/whoami is answered: with the cookie reported ensureAppToken returns
\* and the proxy request is repeated, else /api/oauth/client is posted
WhoAmIAnswered ==
  /\ client.pc = "whoami"
  /\ \E status \in {200, 500, Rejects} :
       IF status = 200 /\ client.jar
       THEN client' = [client EXCEPT
                         !.pc = "retry",
                         !.log = Append(Answered(@, status), Pending("GET /api/msf"))]
       ELSE client' = [client EXCEPT
                         !.pc = "oauth",
                         !.log = Append(Answered(@, status),
                                        Pending("POST /api/oauth/client"))]
  /\ UNCHANGED <<config, now, cachedToken, handler, req, pc, tokenReq, tokenResp,
                 token, res, tokenFetches, lastStore, calls, ticks>>
  /\ UNCHANGED syncVars
  /\ UNCHANGED <<proxy, runLog, ds>>

\* /api/oauth/client is answered: 200 sets the cookie (which the browser
\* stores or refuses) and /api/whoami is asked again, anything else makes
\* ensureAppToken throw
OAuthAnswered ==
  /\ client.pc = "oauth"
  /\ \E status \in {200, 500, Rejects} :
       IF status = 200
       THEN \E stored \in BOOLEAN :
              client' = [client EXCEPT
                           !.pc = "verify", !.jar = @ \/ stored,
                           !.log = Append(Answered(@, status),
                                          Pending("GET /api/whoami"))]
       ELSE client' = [client EXCEPT
                         !.pc = "idle",
                         !.log = Answered(@, status),
                         !.result = [state |-> "rejected", status |-> status]]
  /\ UNCHANGED <<config, now, cachedToken, handler, req, pc, tokenReq, tokenResp,
                 token, res, tokenFetches, lastStore, calls, ticks>>
  /\ UNCHANGED syncVars
  /\ UNCHANGED <<proxy, runLog, ds>>

\* the second /api/whoami is answered: with the cookie reported the proxy
\* request is repeated, else ensureAppToken throws
VerifyAnswered ==
  /\ client.pc = "verify"
  /\ \E status \in {200, 500, Rejects} :
       IF status = 200 /\ client.jar
       THEN client' = [client EXCEPT
                         !.pc = "retry",
                         !.log = Append(Answered(@, status), Pending("GET /api/msf"))]
       ELSE client' = [client EXCEPT
                         !.pc = "idle",
                         !.log = Answered(@, status),
                         !.result = [state |-> "rejected", status |-> status]]
  /\ UNCHANGED <<config, now, cachedToken, handler, req, pc, tokenReq, tokenResp,
                 token, res, tokenFetches, lastStore, calls, ticks>>
  /\ UNCHANGED syncVars
  /\ UNCHANGED <<proxy, runLog, ds>>

\* the repeated proxy request is answered
RetryAnswered ==
  /\ client.pc = "retry"
  /\ \E status \in ProxyStatuses(client.jar, client.path) \cup {Rejects} :
       client' = [client EXCEPT !.pc = "idle",
                                !.log = Answered(@, status),
                                !.result = Settled(status)]
  /\ UNCHANGED <<config, now, cachedToken, handler, req, pc, tokenReq, tokenResp,
                 token, res, tokenFetches, lastStore, calls, ticks>>
  /\ UNCHANGED syncVars
  /\ UNCHANGED <<proxy, runLog, ds>>

\* a browser with or without the msf_at cookie, before its first call
Browsers ==
  {[pc |-> "idle", jar |-> jar, calls |-> 0, path |-> <<>>, log |-> <<>>,
    result |-> [state |-> "pending", status |-> 0]] : jar \in BOOLEAN}
InitClient ==
  /\ config = [MSF_CLIENT_ID |-> "client-id", MSF_CLIENT_SECRET |-> "s3cret",
               MSF_TOKEN_URL |-> "https://hydra/oauth2/token"]
  /\ now = 1000
  /\ cachedToken = [access_token |-> Str("tokA"), expiresAt |-> 3600000]
  /\ lastStore = [by |-> 1, at |-> 0, seq |-> 1,
                  json |-> Obj([access_token |-> Str("tokA"), expires_in |-> Num(3600)])]
  /\ tokenFetches = 1
  /\ calls = 0
  /\ ticks = 0
  /\ pc = [p \in 1..1 |-> "idle"]
  /\ handler = [p \in 1..1 |-> "none"]
  /\ req = [p \in 1..1 |-> None]
  /\ tokenReq = [p \in 1..1 |-> None]
  /\ tokenResp = [p \in 1..1 |-> None]
  /\ token = [p \in 1..1 |-> None]
  /\ res = [p \in 1..1 |-> None]
  /\ proxy = [p \in 1..1 |-> None]
  /\ runLog = NoRuns
  /\ ds = [p \in 1..1 |-> None]
  /\ client \in Browsers
  /\ sync = [p \in 1..1 |-> None]
  /\ bucket = [path \in Paths |-> Absent]
  /\ metaDoc = Absent
  /\ upstream = [traits |-> Arr(<<>>), full |-> 0, short |-> 0,
                 envelope |-> FALSE, perTotal |-> Undefined, odd |-> None]
NextClient ==
  \/ call
  \/ FirstAnswered
  \/ WhoAmIAnswered
  \/ OAuthAnswered
  \/ VerifyAnswered
  \/ RetryAnswered
SpecClient == InitClient /\ [][NextClient]_vars

\* the locals of getAllCharacters before its first pass; requested lists the
\* page numbers the client has asked for
ClientLocals ==
  [pc |-> "page", page |-> 1, all |-> <<>>, total |-> Infinity,
   requested |-> <<1>>, returned |-> None]

\* variant of ClientLoop: the page number is advanced after a short page as well
ClientLoop_PageAlways(l, resp) ==
  LET items == PageItems(resp).a
      all == l.all \o items
      meta == Get(resp, "meta")
      total == Coalesce(Get(meta, "perTotal"),
                        IF Len(all) < perPage THEN Num(Len(all))
                        ELSE Num(Len(all) + perPage))
      short == Len(items) < perPage
      page == l.page + 1
      next == ~short /\ ~(page > MaxPage) /\ LengthBelow(Len(all), total)
  IN [l EXCEPT !.all = all, !.total = total, !.page = page,
               !.requested = IF next THEN Append(@, page) ELSE @,
               !.pc = IF next THEN "page" ELSE "returned",
               !.returned =
                 IF next THEN None
                 ELSE Obj([items |-> Arr(all),
                           meta |-> Obj([perTotal |-> Num(Len(all)),
                                         perPage |-> Num(perPage),
                                         page |-> Num(page)])])]

\* one pass of the while loop of getAllCharacters over the page resp: the
\* items are collected as they came, the estimate of the total is reckoned
\* from the length collected so far, and when no further page is to be asked
\* for the function returns { items: all, meta: { perTotal, perPage, page } }
ClientLoop(l, resp) ==
  LET items == PageItems(resp).a
      all == l.all \o items
      meta == Get(resp, "meta")
      total == Coalesce(Get(meta, "perTotal"),
                        IF Len(all) < perPage THEN Num(Len(all))
                        ELSE Num(Len(all) + perPage))
      short == Len(items) < perPage
      page == IF short THEN l.page ELSE l.page + 1
      next == ~short /\ ~(page > MaxPage) /\ LengthBelow(Len(all), total)
  IN [l EXCEPT !.all = all, !.total = total, !.page = page,
               !.requested = IF next THEN Append(@, page) ELSE @,
               !.pc = IF next THEN "page" ELSE "returned",
               !.returned =
                 IF next THEN None
                 ELSE Obj([items |-> Arr(all),
                           meta |-> Obj([perTotal |-> Num(Len(all)),
                                         perPage |-> Num(perPage),
                                         page |-> Num(page)])])]

\* the client calls getAllCharacters() with the default page size and asks for
\* page 1. The two paginators share no state; the client's is started once the
\* sync run has left its loop
getAllCharacters ==
  /\ client = None
  /\ \E p \in Callers : pc[p] \in {"saveTraits", "done"}
  /\ client' = ClientLocals
  /\ UNCHANGED <<config, now, cachedToken, handler, req, pc, tokenReq, tokenResp,
                 token, res, tokenFetches, lastStore, calls, ticks>>
  /\ UNCHANGED <<sync, bucket, metaDoc, upstream>>
  /\ UNCHANGED proxy
  /\ UNCHANGED <<runLog, ds>>

\* call() resolves with the page the proxy relays from upstream: one pass of
\* the client's loop
CharactersAnswered ==
  /\ client # None
  /\ client.pc = "page"
  /\ client' = ClientLoop(client, UpstreamPage(upstream, client.page))
  /\ UNCHANGED <<config, now, cachedToken, handler, req, pc, tokenReq, tokenResp,
                 token, res, tokenFetches, lastStore, calls, ticks>>
  /\ UNCHANGED <<sync, bucket, metaDoc, upstream>>
  /\ UNCHANGED proxy
  /\ UNCHANGED <<runLog, ds>>

\* upstreams of a few pages, and of MaxPage full pages
PagerUpstreams ==
  Upstreams(0..MaxFullPages) \cup {u \in CapUpstreams : u.full = MaxPage}

\* a sync run of a warm process and a call of getAllCharacters by the client,
\* against the same upstream
NextPager ==
  \/ \E p \in Callers : syncGameRef(p)
  \/ \E p \in Callers : TraitsRespond(p)
  \/ \E p \in Callers : PageRespond(p)
  \/ getAllCharacters
  \/ CharactersAnswered
InitPager == InitWarm(PagerUpstreams, MaxCalls - 1)
SpecPager == InitPager /\ [][NextPager]_vars

\* requests for a dataset to a warm process over a store earlier runs have
\* filled, partly filled or left empty
StoredBuckets ==
  {[path \in Paths |-> IF path \in stored THEN PreviousBucket[path] ELSE Absent] :
     stored \in SUBSET Paths}
InitData ==
  /\ config = [MSF_CLIENT_ID |-> "client-id", MSF_CLIENT_SECRET |-> "s3cret",
               MSF_TOKEN_URL |-> "https://hydra/oauth2/token"]
  /\ now = 1000
  /\ cachedToken = [access_token |-> Str("tokA"), expiresAt |-> 3600000]
  /\ lastStore = [by |-> 1, at |-> 0, seq |-> 1,
                  json |-> Obj([access_token |-> Str("tokA"), expires_in |-> Num(3600)])]
  /\ tokenFetches = 1
  /\ calls = MaxCalls - 1
  /\ ticks = 0
  /\ pc = [p \in 1..1 |-> "idle"]
  /\ handler = [p \in 1..1 |-> "none"]
  /\ req = [p \in 1..1 |-> None]
  /\ tokenReq = [p \in 1..1 |-> None]
  /\ tokenResp = [p \in 1..1 |-> None]
  /\ token = [p \in 1..1 |-> None]
  /\ res = [p \in 1..1 |-> None]
  /\ proxy = [p \in 1..1 |-> None]
  /\ runLog = NoRuns
  /\ ds = [p \in 1..1 |-> None]
  /\ client = None
  /\ sync = [p \in 1..1 |-> None]
  /\ bucket \in StoredBuckets
  /\ metaDoc \in {Absent, PreviousMeta}
  /\ upstream = [traits |-> Arr(<<>>), full |-> 0, short |-> 0,
                 envelope |-> FALSE, perTotal |-> Undefined, odd |-> None]
NextData ==
  \/ \E p \in Callers : datasets(p)
  \/ \E p \in Callers : DatasetExists(p)
  \/ \E p \in Callers : DatasetDownload(p)
  \/ \E p \in Callers : DatasetReadFails(p)
  \/ \E p \in Callers : Settle(p)
SpecData == InitData /\ [][NextData]_vars

\* the game API's data before and after a change
BeforeChange ==
  [traits |-> Arr(<<Obj([id |-> Str("t1"), name |-> Str("Fast")])>>),
   full |-> 0, short |-> 5, envelope |-> FALSE, perTotal |-> Undefined,
   odd |-> None]
AfterChange ==
  [traits |-> Obj([items |-> Arr(<<Obj([id |-> Str("t1")]), Obj([id |-> Str("t2")])>>)]),
   full |-> 0, short |-> 47, envelope |-> FALSE, perTotal |-> Undefined,
   odd |-> None]

\* the game API's data change while syncs are running
UpstreamChanges ==
  /\ upstream = BeforeChange
  /\ upstream' = AfterChange
  /\ UNCHANGED <<config, now, cachedToken, handler, req, pc, tokenReq, tokenResp,
                 token, res, tokenFetches, lastStore, calls, ticks>>
  /\ UNCHANGED <<sync, bucket, metaDoc>>
  /\ UNCHANGED <<proxy, runLog, ds, client>>

\* overlapping sync runs of a warm process, one per invocation, over a store
\* an earlier run has filled
InitRace ==
  /\ config = [MSF_CLIENT_ID |-> "client-id", MSF_CLIENT_SECRET |-> "s3cret",
               MSF_TOKEN_URL |-> "https://hydra/oauth2/token"]
  /\ now = 1000
  /\ cachedToken = [access_token |-> Str("tokA"), expiresAt |-> 3600000]
  /\ lastStore = [by |-> 1, at |-> 0, seq |-> 1,
                  json |-> Obj([access_token |-> Str("tokA"), expires_in |-> Num(3600)])]
  /\ tokenFetches = 1
  /\ calls = 0
  /\ ticks = 0
  /\ pc = [p \in 1..NumCallers |-> "idle"]
  /\ handler = [p \in 1..NumCallers |-> "none"]
  /\ req = [p \in 1..NumCallers |-> None]
  /\ tokenReq = [p \in 1..NumCallers |-> None]
  /\ tokenResp = [p \in 1..NumCallers |-> None]
  /\ token = [p \in 1..NumCallers |-> None]
  /\ res = [p \in 1..NumCallers |-> None]
  /\ proxy = [p \in 1..NumCallers |-> None]
  /\ runLog = NoRuns
  /\ ds = [p \in 1..NumCallers |-> None]
  /\ client = None
  /\ sync = [p \in 1..NumCallers |-> None]
  /\ bucket = PreviousBucket
  /\ metaDoc = Absent
  /\ upstream = BeforeChange
NextRace ==
  \/ \E p \in Callers : syncGameRef(p)
  \/ \E p \in Callers : TraitsRespond(p)
  \/ \E p \in Callers : PageRespond(p)
  \/ \E p \in Callers : SaveTraits(p)
  \/ \E p \in Callers : SaveChars(p)
  \/ \E p \in Callers : SetMeta(p)
  \/ \E p \in Callers : StorageFails(p)
  \/ UpstreamChanges
SpecRace == InitRace /\ [][NextRace]_vars

\* sync runs of a cold process under any configuration
SpecConfig == Init /\ [][NextStore]_vars

\* ================================================================ claims
\* p starts an invocation in this step
Starts(p) == pc[p] = "idle" /\ pc'[p] # "idle"
\* ... and the invocation reaches getAppAccessToken
EntersGetToken(p) == Starts(p) /\ (pc'[p] = "fetchToken" \/ token'[p] # None)
\* p processes its token response in this step
Resumes(p) == pc[p] = "tokenText" /\ pc'[p] = "done"

\* C1: every successfully returned token reports expires_in >= 60, on the
\* cache path and on the fresh path alike.
C1_TokenFreshness ==
  \A p \in Callers :
    (token[p] # None /\ token[p].ok) =>
      LET e == Get(token[p].value, "expires_in")
      IN e.t = "number" /\ e.n >= 60

\* C2: after a successful acquisition with expires_in = 3600, a call made
\* less than 60 s later issues no token request and returns the same access
\* token.
C2_TokenReuse ==
  [][\A p \in Callers :
       (/\ EntersGetToken(p)
        /\ lastStore # None
        /\ Get(lastStore.json, "expires_in") = Num(3600)
        /\ now - lastStore.at < 60000)
       => /\ tokenFetches' = tokenFetches
          /\ pc'[p] = "done"
          /\ token'[p] # None
          /\ token'[p].ok
          /\ Get(token'[p].value, "access_token")
               = Get(lastStore.json, "access_token")]_vars

C2_Witness ==
  \E p \in Callers :
    /\ pc[p] = "done" /\ handler[p] = "getAppAccessToken"
    /\ tokenReq[p] = None /\ token[p] # None /\ token[p].ok
    /\ lastStore # None
    /\ Get(lastStore.json, "expires_in") = Num(3600)
    /\ now - lastStore.at > 0 /\ now - lastStore.at < 60000
    /\ Get(token[p].value, "access_token") = Get(lastStore.json, "access_token")
    /\ tokenFetches = 1 /\ calls = 2

\* C3: a call is served from the cache, without a token request, if and only
\* if the cached token has more than 60 s left; otherwise (60 s or less, or
\* no cached token) it issues a token request.  A token served from the cache
\* never has its expiresAt in the past.
C3_CacheDecision ==
  [][\A p \in Callers :
       EntersGetToken(p) =>
         LET fresh == cachedToken # Null /\ cachedToken.expiresAt - now > 60000
             served == /\ tokenFetches' = tokenFetches
                       /\ pc'[p] = "done"
                       /\ token'[p] # None
                       /\ token'[p].ok
         IN /\ fresh <=> served
            /\ ~fresh => /\ tokenFetches' = tokenFetches + 1
                          /\ pc'[p] = "fetchToken"
                          /\ tokenReq'[p] # None
            /\ served => /\ cachedToken # Null
                          /\ cachedToken.expiresAt > now
                          /\ Get(token'[p].value, "access_token")
                               = cachedToken.access_token]_vars

C3_Witness ==
  \E p \in Callers :
    /\ pc[p] = "fetchToken"
    /\ cachedToken # Null
    /\ cachedToken.expiresAt - now = 60000

\* C4: a token request carries the credentials in exactly one place: the Basic
\* header when both id and secret are configured (then the form has neither
\* client_id nor client_secret), the form fields otherwise (then no Basic
\* header); the form always has grant_type=client_credentials, scope=openid.
C4_CredentialsOnePlace ==
  \A p \in Callers :
    tokenReq[p] # None =>
      LET r == tokenReq[p]
          both == config.MSF_CLIENT_ID # "" /\ config.MSF_CLIENT_SECRET # ""
      IN /\ r.body.grant_type = "client_credentials"
         /\ r.body.scope = "openid"
         /\ both => /\ "Authorization" \in DOMAIN r.headers
                     /\ r.headers.Authorization
                          = <<"Basic", config.MSF_CLIENT_ID, config.MSF_CLIENT_SECRET>>
                     /\ DOMAIN r.body = {"grant_type", "scope"}
         /\ ~both => /\ "Authorization" \notin DOMAIN r.headers
                      /\ DOMAIN r.body
                           = {"grant_type", "scope", "client_id", "client_secret"}
                      /\ r.body.client_id = config.MSF_CLIENT_ID
                      /\ r.body.client_secret = config.MSF_CLIENT_SECRET

C4_Witness ==
  \E p \in Callers :
    /\ tokenReq[p] # None
    /\ config.MSF_CLIENT_ID # "" /\ config.MSF_CLIENT_SECRET = ""
    /\ "client_secret" \in DOMAIN tokenReq[p].body
    /\ pc[p] = "done" /\ token[p].ok

\* a decoded response lacks a non-empty access_token or a positive expires_in
LacksTokenOrExpiry(json) ==
  LET a == Get(json, "access_token")
      e == Get(json, "expires_in")
  IN ~(a.t = "string" /\ a.s # "") \/ ~(e.t = "number" /\ e.n > 0)

\* C5: a decoded response that lacks a non-empty access_token, or whose
\* expires_in is missing, zero or negative, fails with TokenShapeError and
\* stores nothing in the cache.
C5_ShapeError ==
  [][\A p \in Callers :
       (/\ Resumes(p)
        /\ Ok(tokenResp[p]) /\ tokenResp[p].text.json
        /\ LacksTokenOrExpiry(tokenResp[p].text.value))
       => /\ token'[p] = Throw(TokenShapeError)
          /\ cachedToken' = cachedToken]_vars

\* C6: error precedence transport, parse, shape: a non-success status gives
\* the transport error whatever the body; a success status with a body that
\* is not JSON gives the parse error; the shape error needs a success status
\* and a decodable body.
C6_ErrorPrecedence ==
  \A p \in Callers :
    (pc[p] = "done" /\ tokenResp[p] # None) =>
      LET r == tokenResp[p]
          success == r.status \in 200..299
      IN /\ ~success => token[p] = Throw(TokenTransportError(r.status))
         /\ (success /\ ~r.text.json) => token[p] = Throw(TokenParseError)
         /\ token[p] = Throw(TokenShapeError) => (success /\ r.text.json)

C6_Witness ==
  \E p \in Callers :
    /\ pc[p] = "done" /\ tokenResp[p] # None
    /\ tokenResp[p].status = 500
    /\ tokenResp[p].text.json
    /\ Get(tokenResp[p].text.value, "access_token") = Str("tokA")
    /\ token[p] = Throw(TokenTransportError(500))

\* C7: a successful fresh acquisition at time now overwrites the cache with
\* {access_token of the response, now + expires_in*1000} and returns that
\* token with the expires_in of the response, unchanged.
C7_FreshStore ==
  [][\A p \in Callers :
       (Resumes(p) /\ token'[p].ok) =>
         LET json == tokenResp[p].text.value
         IN /\ cachedToken'
                 = [access_token |-> Get(json, "access_token"),
                    expiresAt |-> now + Get(json, "expires_in").n * 1000]
            /\ Get(token'[p].value, "access_token") = Get(json, "access_token")
            /\ Get(token'[p].value, "expires_in") = Get(json, "expires_in")]_vars

C7_Witness ==
  /\ lastStore # None /\ lastStore.seq = 2 /\ lastStore.at > 0
  /\ pc[lastStore.by] = "done"
  /\ token[lastStore.by] = Return(lastStore.json)
  /\ cachedToken
       = [access_token |-> Get(lastStore.json, "access_token"),
          expiresAt |-> lastStore.at + Get(lastStore.json, "expires_in").n * 1000]

\* the cache is absent, or both its fields are those of the response that
\* was stored last
CacheFromOneResponse ==
  IF lastStore = None THEN cachedToken = Null
  ELSE cachedToken
         = [access_token |-> Get(lastStore.json, "access_token"),
            expiresAt |-> lastStore.at + Get(lastStore.json, "expires_in").n * 1000]

\* a caller that made a request holds the token of its own response
OwnResponse ==
  \A p \in Callers :
    (pc[p] = "done" /\ tokenResp[p] # None /\ token[p].ok)
      => token[p].value = tokenResp[p].text.value

\* C8: overlapping calls each issue their own request and receive the token
\* of their own response; the cache always holds one token both of whose
\* fields come from the response stored last, and never reverts to absent.
C8_LastWriterWins ==
  [][/\ CacheFromOneResponse'
     /\ OwnResponse'
     /\ cachedToken # Null => cachedToken' # Null]_vars

C8_Witness ==
  \E p, q \in Callers :
    /\ p # q /\ pc[p] = "done" /\ pc[q] = "done"
    /\ tokenReq[p] # None /\ tokenReq[q] # None
    /\ tokenResp[p] # None /\ tokenResp[q] # None
    /\ token[p].ok /\ token[q].ok
    /\ Get(token[p].value, "expires_in") = Num(3600)
    /\ Get(token[q].value, "expires_in") = Num(61)
    /\ Get(token[p].value, "access_token") # Get(token[q].value, "access_token")
    /\ lastStore.by = q /\ lastStore.seq = 2
    /\ cachedToken.access_token = Get(token[q].value, "access_token")

\* the unset parameters, in the order the handler names them
UnsetNames ==
  (IF config.MSF_CLIENT_ID = "" THEN <<"MSF_CLIENT_ID">> ELSE <<>>)
    \o (IF config.MSF_CLIENT_SECRET = "" THEN <<"MSF_CLIENT_SECRET">> ELSE <<>>)
    \o (IF config.MSF_TOKEN_URL = "" THEN <<"MSF_TOKEN_URL">> ELSE <<>>)

\* C9: with the client id, the client secret or the token URL unset, a POST
\* to oauthClientCreds answers ConfigMissing naming exactly the unset
\* parameters, issues no token request, sets no cookie and leaves the cache
\* alone, also when a still-valid token is cached.
C9_ConfigMissing ==
  [][\A p \in Callers :
       (/\ Starts(p)
        /\ handler'[p] = "oauthClientCreds"
        /\ req'[p] = [method |-> "POST"]
        /\ UnsetNames # <<>>)
       => /\ res'[p] = [status |-> 400,
                        body |-> [ok |-> FALSE,
                                  error |-> [message |-> "Missing env",
                                             names |-> UnsetNames]],
                        setCookie |-> None]
          /\ pc'[p] = "done"
          /\ token'[p] = None
          /\ tokenFetches' = tokenFetches
          /\ cachedToken' = cachedToken]_vars

C9_Witness ==
  \E p \in Callers :
    /\ pc[p] = "done" /\ handler[p] = "oauthClientCreds"
    /\ res[p] = ConfigMissing(<<"MSF_CLIENT_SECRET">>)
    /\ cachedToken # Null /\ now < cachedToken.expiresAt - 60000

\* the loop of p has just ended and the upstream declared no total
CollectedNoTotal(p) ==
  /\ pc[p] = "saveTraits"
  /\ upstream.perTotal = Undefined

\* the number of character pages p has requested
PageFetches(p) == Len(sync[p].requested) - 1

\* C10 as stated: with no declared total, k full pages and then a short page
\* of s items give k*perPage + s items after k+1 fetches, for every k.
C10_ShortPageEndsRun_AnyK ==
  \A p \in Callers :
    CollectedNoTotal(p) =>
      /\ Len(sync[p].allChars) = upstream.full * perPage + upstream.short
      /\ PageFetches(p) = upstream.full + 1

\* C10 as amended: the same for k < MaxPage (200), where the short page is
\* among the pages the loop may request.
C10_ShortPageEndsRun ==
  \A p \in Callers :
    (CollectedNoTotal(p) /\ upstream.full < MaxPage) =>
      /\ Len(sync[p].allChars) = upstream.full * perPage + upstream.short
      /\ PageFetches(p) = upstream.full + 1

C10_Witness ==
  \E p \in Callers :
    /\ CollectedNoTotal(p)
    /\ upstream.full = 2 /\ upstream.short = 47
    /\ Len(sync[p].allChars) = 447
    /\ PageFetches(p) = 3

\* the page numbers p has requested, in the order of the requests
PagesRequested(p) ==
  [i \in 1..PageFetches(p) |-> sync[p].requested[i + 1][3]]

\* a run is in its loop or past it
InRun(p) == sync[p] # None /\ pc[p] # "fetchTraits"

\* C11: no run requests a page number above 200 or more than 200 pages,
\* whatever the upstream answers, and every answered page either ends the
\* loop or adds one to the pages requested: the loop ends after at most 200
\* answers.
C11_LoopTerminates ==
  /\ [](\A p \in Callers :
         InRun(p) =>
           /\ PageFetches(p) <= MaxPage
           /\ \A i \in 1..PageFetches(p) : PagesRequested(p)[i] <= MaxPage)
  /\ [][\A p \in Callers :
         (pc[p] = "fetchPage" /\ pc'[p] = "fetchPage") =>
           Len(sync'[p].requested) = Len(sync[p].requested) + 1]_vars

C11_Witness ==
  \E p \in Callers :
    /\ pc[p] = "saveTraits"
    /\ upstream.full = MaxPage /\ upstream.perTotal = Num(100000)
    /\ PageFetches(p) = MaxPage
    /\ PagesRequested(p)[MaxPage] = MaxPage
    /\ Len(sync[p].allChars) = MaxPage * perPage

\* C12: the answer to a page with fewer than perPage items (zero included)
\* ends the loop: no further page is requested, whatever perTotal the page
\* declares.
C12_ShortPageStops ==
  [][\A p \in Callers :
       (pc[p] = "fetchPage" /\ PageSize(upstream, sync[p].page) < perPage) =>
         /\ pc'[p] # "fetchPage"
         /\ sync'[p].requested = sync[p].requested]_vars

C12_Witness ==
  \E p \in Callers :
    /\ pc[p] = "saveTraits"
    /\ upstream.short = 0 /\ upstream.full = 1
    /\ upstream.perTotal = Num(100000)
    /\ sync[p].perTotal = Num(100000)
    /\ Len(sync[p].allChars) = perPage
    /\ PagesRequested(p) = <<1, 2>>

\* the page requests of p that have not been answered yet
InFlight(p) == PageFetches(p) - sync[p].answered

\* C13: the pages are requested in the order 1, 2, 3, ... without gap or
\* repeat; at most one page request is unanswered at any time; page n+1 is
\* requested only by the step that has received the answer to page n and
\* has added its items.
C13_PagesInOrder ==
  /\ [](\A p \in Callers :
         InRun(p) =>
           /\ PagesRequested(p) = [i \in 1..PageFetches(p) |-> i]
           /\ InFlight(p) \in {0, 1}
           /\ InFlight(p) = 1 <=> pc[p] = "fetchPage")
  /\ [][\A p \in Callers :
         (InRun(p) /\ sync'[p] # None
            /\ sync'[p].requested # sync[p].requested) =>
           /\ pc[p] = "fetchPage"
           /\ sync'[p].answered = PageFetches(p)
           /\ sync'[p].requested =
                 Append(sync[p].requested, CharactersPath(PageFetches(p) + 1))
           /\ Len(sync'[p].allChars) =
                 Len(sync[p].allChars) + PageSize(upstream, PageFetches(p))]_vars

C13_Witness ==
  \E p \in Callers :
    /\ pc[p] = "fetchPage"
    /\ PagesRequested(p) = <<1, 2, 3>>
    /\ sync[p].answered = 2
    /\ Len(sync[p].allChars) = 2 * perPage

\* the request of p that was sent last
LastRequested(p) == sync[p].requested[Len(sync[p].requested)]

\* C14: a non-success answer to the traits request or to a page ends the run
\* with the error of that request and that status; the request is not sent
\* again, nothing is requested afterwards, and no request is sent twice in
\* one run.
C14_UpstreamErrorAborts ==
  /\ [](\A p \in Callers :
         sync[p] # None =>
           \A i, j \in 1..Len(sync[p].requested) :
             i # j => sync[p].requested[i] # sync[p].requested[j])
  /\ [][\A p \in Callers :
         (pc[p] \in {"fetchTraits", "fetchPage"} /\ UpstreamFails(p)) =>
           /\ pc'[p] = "done"
           /\ res'[p].status = 500 /\ ~res'[p].body.ok
           /\ res'[p].body.error.message = "fetchJSON"
           /\ res'[p].body.error.status \in {401, 500}
           /\ res'[p].body.error.path = LastRequested(p)
           /\ sync'[p].requested = sync[p].requested]_vars
  /\ [][\A p \in Callers :
         (pc[p] = "done" /\ sync[p] # None) =>
           (sync'[p] = None \/ sync'[p] = sync[p])]_vars

C14_Witness ==
  \E p \in Callers :
    /\ pc[p] = "done"
    /\ res[p] = syncFailed(UpstreamHTTPError(CharactersPath(2), 401))
    /\ sync[p].requested = <<TraitsPath, CharactersPath(1), CharactersPath(2)>>
    /\ InFlight(p) = 0

\* C15 as stated: the normalizer returns for every JSON value, so the answer
\* to a page never ends the run unless it is a non-success answer.
C15_NormalizerTotal ==
  [][\A p \in Callers :
       (pc[p] = "fetchPage" /\ pc'[p] = "done") =>
         res'[p].body.error.message = "fetchJSON"]_vars

\* v is a sequence of strings
StringSeq(v) == v.t = "array" /\ \A i \in 1..Len(v.a) : v.a[i].t = "string"

\* C16 as stated: every normalized record has a string id, a string name and
\* a traits sequence of strings, "" and the empty sequence standing for what
\* the raw record lacks.
C16_NormalizedTypes ==
  \A p \in Callers :
    InRun(p) =>
      \A i \in 1..Len(sync[p].allChars) :
        LET raw == RawItem(upstream, i)
            out == sync[p].allChars[i]
        IN /\ Get(out, "id").t = "string"
           /\ Get(out, "name").t = "string"
           /\ StringSeq(Get(out, "traits"))
           /\ Get(raw, "id") = Undefined => Get(out, "id") = Str("")
           /\ Get(raw, "name") = Undefined => Get(out, "name") = Str("")
           /\ Get(raw, "traits").t # "array" => Get(out, "traits") = Arr(<<>>)

OptionalKeys == {"imageUrl", "faction", "role", "stats"}

\* C17: the keys of a normalized record are among id, name, imageUrl, traits,
\* faction, role, stats; id, name and traits are always there; an optional
\* key is there only if the raw record has a truthy value under it, for
\* stats one of object type.
C17_NormalizedKeys ==
  \A p \in Callers :
    InRun(p) =>
      \A i \in 1..Len(sync[p].allChars) :
        LET raw == RawItem(upstream, i)
            keys == DOMAIN sync[p].allChars[i].f
        IN /\ keys \subseteq {"id", "name", "traits"} \cup OptionalKeys
           /\ {"id", "name", "traits"} \subseteq keys
           /\ \A k \in keys \cap OptionalKeys : Truthy(Get(raw, k))
           /\ "stats" \in keys => Get(raw, "stats").t \in {"object", "array"}

C17_Witness ==
  \E p \in Callers :
    /\ pc[p] = "saveTraits"
    /\ upstream.odd.t = "object"
    /\ DOMAIN upstream.odd.f =
         {"id", "name", "traits", "imageUrl", "faction", "role", "stats",
          "level", "secret"}
    /\ DOMAIN sync[p].allChars[1].f =
         {"id", "name", "traits", "imageUrl", "faction", "role", "stats"}
    /\ DOMAIN sync[p].allChars[2].f = {"id", "name", "traits", "role"}

\* the upstream requests the proxy invocation p has issued
Sent(p) == proxy[p].sent

\* C18 as stated: a path outside game/v1/ is answered BadRequest without an
\* upstream request, and every upstream request of the proxy goes to a
\* resource under game/v1/ of the configured base.
C18_AllowList ==
  \A p \in Callers :
    proxy[p] # None =>
      /\ ~AllowedPath(req[p].path) => (res[p] = BadRequest /\ Sent(p) = <<>>)
      /\ \A i \in 1..Len(Sent(p)) :
           /\ Sent(p)[i].origin = "https://api.msf"
           /\ Len(Sent(p)[i].path) >= 3
           /\ Sent(p)[i].path[1] = "game" /\ Sent(p)[i].path[2] = "v1"

\* the request of p has no msf_at cookie, or an empty one
NoCallerToken(p) ==
  \/ req[p].cookie = Undefined
  \/ /\ getCookie(req[p].cookie, <<"msf_at">>).ok
     /\ NoToken(getCookie(req[p].cookie, <<"msf_at">>).value)

\* C19 as stated: a proxy request without caller token is answered
\* Unauthorized, whatever its path, and no upstream request is issued.
C19_NoTokenUnauthorized ==
  \A p \in Callers :
    (proxy[p] # None /\ NoCallerToken(p)) =>
      (res[p] = Unauthorized /\ Sent(p) = <<>>)

\* C20: a proxy request with an allowed path and the cookie of a caller token
\* issues exactly one upstream request, a GET whose bearer is that token,
\* whatever the incoming method; no step of the proxy changes the cached
\* application token or requests a new one.
C20_ForwardOnce ==
  /\ [](\A p \in Callers :
         (proxy[p] # None /\ AllowedPath(req[p].path)
            /\ req[p].callerToken # None) =>
           /\ Len(Sent(p)) = 1
           /\ Sent(p)[1].method = "GET"
           /\ Sent(p)[1].headers.Authorization = <<"Bearer", req[p].callerToken.u>>)
  /\ [][\A p \in Callers :
         (handler[p] = "msfProxy" \/ handler'[p] = "msfProxy") =>
           /\ cachedToken' = cachedToken
           /\ lastStore' = lastStore
           /\ tokenFetches' = tokenFetches]_vars

C20_Witness ==
  \E p \in Callers :
    /\ pc[p] = "done" /\ res[p].status = 200
    /\ req[p].method = "POST"
    /\ req[p].path = <<"game", "v1", "characters">>
    /\ req[p].cookie = Header(<<"theme", "=", "dark", ";", " ", "msf_at", "=",
                                 "tok", "%3D", "%3D">>)
    /\ Sent(p) = <<[method |-> "GET", origin |-> "https://api.msf",
                    path |-> <<"game", "v1", "characters">>,
                    headers |-> [xApiKey |-> "x-key",
                                 Authorization |-> <<"Bearer", <<"tok", "=", "=">>>>]]>>
    /\ cachedToken.access_token = Str("tokA")

\* two Content-Type values name the same media type, or both are absent
SameMediaType(a, b) ==
  IF a = Null \/ b = Null THEN a = b ELSE a.type = b.type

\* C21 as stated: whatever the upstream answers, the proxy's response has its
\* status, its content type and its body.
C21_RelayVerbatim ==
  \A p \in Callers :
    (proxy[p] # None /\ proxy[p].received # None) =>
      /\ res[p].status = proxy[p].received.status
      /\ SameMediaType(res[p].contentType, proxy[p].received.contentType)
      /\ res[p].body = proxy[p].received.body

SyncDone(p) == handler[p] = "syncGameRef" /\ pc[p] = "done"
SyncFailed(p) == SyncDone(p) /\ res[p].status = 500
SyncSucceeded(p) == SyncDone(p) /\ res[p].status = 200
AllWrites == <<"datasets/traits.json", "datasets/characters.json", "meta/datasets">>
Written(target) == \E i \in 1..Len(runLog.writes) : runLog.writes[i] = target
StoreAsBefore ==
  bucket = runLog.before.bucket /\ metaDoc = runLog.before.metaDoc

\* the run of p got the token abc and meets one trait and five characters
OneTraitFiveCharacters(p) ==
  /\ sync[p] # None
  /\ sync[p].access_token = Str("abc")
  /\ lastStore # None /\ lastStore.json = TokenAbc
  /\ upstream.traits.t = "array" /\ Len(upstream.traits.a) = 1
  /\ upstream.full = 0 /\ upstream.short = 5

\* C22: a run of a cold process whose token endpoint answers {access_token:
\* "abc", expires_in: 1800}, whose traits are a one-element array and whose
\* first page holds 5 characters fails only where a request or a write fails,
\* and when it succeeds it reports counts {traits: 1, characters: 5} after one
\* token request, one traits request, one page request, the two artifact
\* writes and one metadata write.
C22_EndToEnd ==
  \A p \in Callers :
    (SyncDone(p) /\ OneTraitFiveCharacters(p)) =>
      IF res[p].status = 200
      THEN /\ res[p].body.counts = [traits |-> 1, characters |-> 5]
           /\ runLog.writes = AllWrites
           /\ tokenFetches = 1
           /\ sync[p].requested = <<TraitsPath, CharactersPath(1)>>
      ELSE res[p].body.error.message \in {"fetchJSON", "storage"}

C22_Witness ==
  \E p \in Callers : SyncSucceeded(p) /\ OneTraitFiveCharacters(p)

\* the run of p failed in token acquisition or in a request to the game API
FailedFetching(p) ==
  SyncFailed(p) /\ (sync[p] = None \/ res[p].body.error.message = "fetchJSON")

\* C23: a run that fails in token acquisition, in the traits request or in a
\* page request has written no artifact and no metadata, and answers with one
\* failure response.
C23_FetchFailureWritesNothing ==
  \A p \in Callers :
    FailedFetching(p) =>
      /\ runLog.writes = <<>>
      /\ StoreAsBefore
      /\ res[p].body.ok = FALSE

C23_Witness ==
  \E p \in Callers :
    /\ FailedFetching(p)
    /\ sync[p] # None /\ Len(sync[p].requested) = 3
    /\ bucket = PreviousBucket /\ metaDoc = PreviousMeta

\* C24 as stated: a failing run leaves both artifacts and the metadata
\* document as they were before the run.
C24_FailureLeavesStore ==
  \A p \in Callers : SyncFailed(p) => StoreAsBefore

\* C24: a failing run leaves the metadata document as it was before the run;
\* an artifact is as before unless this run wrote it, and the run wrote
\* something only when it failed in a write or in the count of the traits.
C24_FailureLeavesMeta ==
  \A p \in Callers :
    SyncFailed(p) =>
      /\ metaDoc = runLog.before.metaDoc
      /\ \A path \in Paths : ~Written(path) => bucket[path] = runLog.before.bucket[path]
      /\ runLog.writes # <<>> =>
           res[p].body.error \in {PersistenceError, TypeError}
      /\ ~Written("meta/datasets")

C24_Witness ==
  \E p \in Callers :
    /\ SyncFailed(p)
    /\ Len(runLog.writes) = 2
    /\ runLog.before.bucket = PreviousBucket
    /\ bucket["datasets/characters.json"] # PreviousBucket["datasets/characters.json"]

\* C25: when the characters write fails after the traits write, the new
\* traits artifact is in storage, the characters artifact and the metadata
\* document are as before the run, and the run reports failure.
C25_TraitsStay ==
  \A p \in Callers :
    (SyncDone(p) /\ runLog.writes = <<"datasets/traits.json">>) =>
      /\ bucket["datasets/traits.json"] = JSONText(upstream.traits)
      /\ bucket["datasets/characters.json"] = runLog.before.bucket["datasets/characters.json"]
      /\ metaDoc = runLog.before.metaDoc
      /\ res[p].status = 500 /\ res[p].body.ok = FALSE

C25_Witness ==
  \E p \in Callers :
    /\ SyncDone(p) /\ runLog.writes = <<"datasets/traits.json">>
    /\ runLog.before.bucket = PreviousBucket
    /\ bucket["datasets/traits.json"] # PreviousBucket["datasets/traits.json"]
    /\ bucket["datasets/characters.json"] = PreviousBucket["datasets/characters.json"]

\* C26: a successful run has written the metadata document once; the
\* document then holds every field it held before the run with the same
\* value, except updatedAt and counts; no step deletes the document.
C26_MetaMerged ==
  /\ [](\A p \in Callers :
          SyncSucceeded(p) =>
            /\ Cardinality({i \in 1..Len(runLog.writes) :
                              runLog.writes[i] = "meta/datasets"}) = 1
            /\ metaDoc # Absent
            /\ metaDoc.updatedAt = now
            /\ metaDoc.counts = res[p].body.counts
            /\ runLog.before.metaDoc # Absent =>
                 \A k \in DOMAIN runLog.before.metaDoc \ {"updatedAt", "counts"} :
                   k \in DOMAIN metaDoc /\ metaDoc[k] = runLog.before.metaDoc[k])
  /\ [][metaDoc # Absent => metaDoc' # Absent]_vars

C26_Witness ==
  \E p \in Callers :
    /\ SyncSucceeded(p)
    /\ runLog.before.metaDoc = PreviousMeta
    /\ metaDoc # PreviousMeta /\ metaDoc.note = "pinned"

\* the number of records on the first n pages of the upstream
RECURSIVE ItemsUpTo(_, _)
ItemsUpTo(up, n) == IF n = 0 THEN 0 ELSE PageSize(up, n) + ItemsUpTo(up, n - 1)

\* the normalized images of the records on the pages the run of p requested
FetchedImages(p) ==
  [k \in 1..ItemsUpTo(upstream, PageFetches(p)) |->
     Normalize(RawItem(upstream, k)).value]

\* C27: the characters artifact a run has written holds the normalized
\* images of the records of the pages it requested, in the upstream's order,
\* and nothing else; the traits artifact it has written is the traits
\* response.
C27_ArtifactsAreTheFetch ==
  \A p \in Callers :
    (handler[p] = "syncGameRef" /\ sync[p] # None) =>
      /\ Written("datasets/characters.json") =>
           Get(bucket["datasets/characters.json"].value, "items") = Arr(FetchedImages(p))
      /\ Written("datasets/traits.json") =>
           bucket["datasets/traits.json"] = JSONText(upstream.traits)

C27_Witness ==
  \E p \in Callers :
    /\ handler[p] = "syncGameRef" /\ sync[p] # None
    /\ Written("datasets/characters.json")
    /\ PageFetches(p) = 3
    /\ runLog.before.bucket = PreviousBucket
    /\ Len(Get(bucket["datasets/characters.json"].value, "items").a) = 2 * perPage + 5

\* the name the request of p gives, as it was sent
GivenName(p) == IF req[p].segment # <<>> THEN req[p].segment ELSE req[p].queryName

\* C28 as stated: a request whose name is not traits or characters is
\* answered 400 without any access to the bucket; one whose name is traits
\* or characters is answered 404 when the artifact is absent and with the
\* stored content otherwise (or 500 when the read fails); the handler reads
\* only the two artifacts and writes nothing.
C28_TwoNamesOnly ==
  /\ [](\A p \in Callers :
          (handler[p] = "datasets" /\ pc[p] = "done") =>
            /\ ~ValidName(GivenName(p)) =>
                 res[p].status = 400 /\ ds[p].accesses = <<>>
            /\ ValidName(GivenName(p)) =>
                 \/ res[p].status = 500
                 \/ IF bucket[filePath(GivenName(p))] = Absent
                    THEN res[p].status = 404
                    ELSE res[p].status = 200
                         /\ res[p].body = bucket[filePath(GivenName(p))]
            /\ \A i \in 1..Len(ds[p].accesses) : ds[p].accesses[i][2] \in Paths)
  /\ [][UNCHANGED <<bucket, metaDoc, cachedToken>>]_vars

\* the places of the proxy requests in the client's log
ProxyRequests == {i \in 1..Len(client.log) : client.log[i].request = "GET /api/msf"}

\* C29 as stated: one call sends at most two proxy requests; a second one
\* only after the first was answered 401 and after a POST /api/oauth/client
\* that was answered 200; a 401 for the second one rejects the call.
C29_RefreshThenRetryOnce ==
  /\ Cardinality(ProxyRequests) <= 2
  /\ Cardinality(ProxyRequests) = 2 =>
       /\ client.log[1].status = 401
       /\ \E j \in 1..Len(client.log) :
            /\ client.log[j].request = "POST /api/oauth/client"
            /\ client.log[j].status = 200
       /\ client.log[Len(client.log)].status = 401 =>
            client.pc = "idle" /\ client.result.state = "rejected"

\* a step in which the page the run of p waits for is taken into the loop
PageStep(p) == pc[p] = "fetchPage" /\ pc'[p] \in {"fetchPage", "saveTraits"}
\* that page is full; the total it declares; the step requests another page
FullPage(p) == PageSize(upstream, sync[p].page) = perPage
Declared(p) ==
  IF upstream.envelope THEN DeclaredTotal(upstream, sync[p].page) ELSE Undefined
RequestsNext(p) ==
  pc'[p] = "fetchPage" /\ Len(sync'[p].requested) = Len(sync[p].requested) + 1

\* a run over two or more full pages is past its loop
PastLoopOverTwoFull(p) ==
  /\ InRun(p) /\ pc[p] \in {"saveTraits", "saveChars", "setMeta"}
  /\ upstream.envelope /\ upstream.full >= 2

\* after a full page that declares a total which the collected records have
\* reached no page is requested (the total is the one of that page); two full
\* pages declaring 400 make 2 page requests
StopsAtDeclaredTotal ==
  /\ [][\A p \in Callers :
          (PageStep(p) /\ FullPage(p) /\ Declared(p).t = "number"
             /\ Len(sync'[p].allChars) >= Declared(p).n) => ~RequestsNext(p)]_vars
  /\ [](\A p \in Callers :
          (PastLoopOverTwoFull(p)
             /\ upstream.perTotal \in {Num(400), Revised(Num(600), Num(400))}) =>
            PageFetches(p) = 2 /\ Len(sync[p].allChars) = 400)

\* C30 as stated: the total a full page declares ends the loop once it is
\* reached, and a full page that declares none is always followed by a
\* request for the next page.
C30_TotalDrives_Always ==
  /\ StopsAtDeclaredTotal
  /\ [][\A p \in Callers :
          (PageStep(p) /\ FullPage(p) /\ Declared(p) = Undefined) =>
            RequestsNext(p)]_vars

\* C30: the total a full page declares ends the loop once it is reached; a
\* full page that declares none is followed by a request for the next page
\* when it is one of the pages 1..MaxPage-1, and by none when it is page
\* MaxPage.
C30_TotalDrives ==
  /\ StopsAtDeclaredTotal
  /\ [][\A p \in Callers :
          (PageStep(p) /\ FullPage(p) /\ Declared(p) = Undefined) =>
            (RequestsNext(p) <=> sync[p].page < MaxPage)]_vars

C30_Witness ==
  \E p \in Callers :
    /\ PastLoopOverTwoFull(p)
    /\ upstream.perTotal = Num(400)
    /\ PageFetches(p) = 2
    /\ Len(sync[p].allChars) = 400

\* the call of p has failed
CallFailed(p) == token[p] # None /\ ~token[p].ok

\* C31: a getAppAccessToken call that fails (status not ok, body not JSON,
\* fields missing, fetch rejected) leaves cachedToken as it was: only a
\* step in which a call succeeds with a response changes cachedToken.
C31_FailureKeepsCache ==
  [][/\ \A p \in Callers :
          (token[p] = None /\ token'[p] # None /\ ~token'[p].ok) =>
            cachedToken' = cachedToken
     /\ cachedToken' # cachedToken =>
          \E p \in Callers : Resumes(p) /\ token'[p].ok]_vars

\* a call has failed over a cached token that is no longer valid
C31_Witness ==
  \E p \in Callers :
    /\ CallFailed(p)
    /\ cachedToken # Null /\ ~CacheValid(cachedToken, now)
    /\ lastStore # None
    /\ cachedToken.access_token = Get(lastStore.json, "access_token")

\* how far the invocation of p has come
Phase(p) ==
  CASE pc[p] = "idle" -> 0
    [] pc[p] = "fetchToken" -> 1
    [] pc[p] = "tokenText" -> 2
    [] pc[p] = "fetchTraits" -> 3
    [] pc[p] = "fetchPage" -> 4
    [] pc[p] = "saveTraits" -> 5
    [] pc[p] = "saveChars" -> 6
    [] pc[p] = "setMeta" -> 7
    [] OTHER -> 8

\* C32: a sync run goes through token acquisition, the traits request, the
\* page requests, the traits save, the characters save, the metadata write
\* and the response in this order: requests to the game API exist only once
\* the token is there, a page is requested only once the traits are there,
\* writes happen only once every request is answered and in the order
\* traits, characters, metadata, and the response comes last.
C32_StepOrder ==
  /\ [](\A p \in Callers :
          handler[p] = "syncGameRef" =>
            /\ sync[p] # None => token[p] # None /\ token[p].ok
            /\ pc[p] \in {"fetchToken", "tokenText"} => sync[p] = None
            /\ (sync[p] # None /\ PageFetches(p) > 0) =>
                 pc[p] # "fetchTraits" /\ sync[p].traits # Undefined
            /\ runLog.writes # <<>> =>
                 /\ pc[p] \in {"saveChars", "setMeta", "done"}
                 /\ PageFetches(p) > 0 /\ InFlight(p) = 0
            /\ \A i \in 1..Len(runLog.writes) :
                 i <= Len(AllWrites) /\ runLog.writes[i] = AllWrites[i]
            /\ res[p] # None <=> pc[p] = "done"
            /\ (pc[p] = "done" /\ res[p].status = 200) => runLog.writes = AllWrites)
  /\ [][\A p \in Callers :
          pc'[p] # pc[p] =>
            \/ pc[p] = "done" /\ pc'[p] = "idle"
            \/ Phase(p)' > Phase(p)]_vars

C32_Witness ==
  \E p \in Callers :
    /\ SyncSucceeded(p)
    /\ PageFetches(p) = 3
    /\ tokenFetches = 1
    /\ runLog.writes = AllWrites

\* the records a stored traits artifact holds: the elements of the array, or
\* of its items
TraitRecords(artifact) ==
  IF artifact.value.t = "array" THEN artifact.value.a
  ELSE Get(artifact.value, "items").a

\* C33: after a successful run the characters count of meta/datasets, the
\* number of items of the stored characters artifact, that artifact's
\* meta.perTotal and the characters count of the response are one number, and
\* so are the traits count of meta/datasets, the number of records of the
\* stored traits artifact and the traits count of the response.
C33_CountsAgree ==
  \A p \in Callers :
    SyncSucceeded(p) =>
      LET chars == bucket["datasets/characters.json"].value
          n == Len(Get(chars, "items").a)
          m == Len(TraitRecords(bucket["datasets/traits.json"]))
      IN /\ metaDoc.counts.characters = n
         /\ Get(Get(chars, "meta"), "perTotal") = Num(n)
         /\ res[p].body.counts.characters = n
         /\ metaDoc.counts.traits = m
         /\ res[p].body.counts.traits = m

C33_Witness ==
  \E p \in Callers :
    /\ SyncSucceeded(p)
    /\ runLog.before.metaDoc = PreviousMeta
    /\ metaDoc.counts = [traits |-> 2, characters |-> 205]

\* every invocation is a sync run that has reported success
AllSucceeded == \A p \in Callers : SyncSucceeded(p)
CountsOf(p) ==
  [traits |-> traitsCount(sync[p].traits), characters |-> Len(sync[p].allChars)]
StoredCounts ==
  [traits |-> Len(TraitRecords(bucket["datasets/traits.json"])),
   characters |-> Len(Get(bucket["datasets/characters.json"].value, "items").a)]

\* C34 as stated: once overlapping runs have all reported success, the two
\* stored artifacts and the counts of meta/datasets are those of one run, and
\* the counts are the numbers of records stored.
C34_OneRunWins ==
  AllSucceeded =>
    /\ \E q \in Callers :
         /\ bucket["datasets/traits.json"] = JSONText(sync[q].traits)
         /\ bucket["datasets/characters.json"] = CharactersArtifact(sync[q])
         /\ metaDoc.counts = CountsOf(q)
    /\ metaDoc.counts = StoredCounts

\* C34: once overlapping runs have all reported success, each stored
\* artifact is the one some run wrote and the counts of meta/datasets are
\* those of some run, not necessarily the same one; the counts are the
\* numbers of records stored when all runs collected the same numbers.
C34_EachFromSomeRun ==
  AllSucceeded =>
    /\ \E q \in Callers : bucket["datasets/traits.json"] = JSONText(sync[q].traits)
    /\ \E q \in Callers : bucket["datasets/characters.json"] = CharactersArtifact(sync[q])
    /\ \E q \in Callers : metaDoc.counts = CountsOf(q)
    /\ (\A q, r \in Callers : CountsOf(q) = CountsOf(r)) =>
         metaDoc.counts = StoredCounts

\* two runs succeeded and the store holds the traits of one with the
\* characters of the other
C34_Witness ==
  /\ AllSucceeded
  /\ \E q, r \in Callers :
       /\ CountsOf(q) # CountsOf(r)
       /\ bucket["datasets/traits.json"] = JSONText(sync[q].traits)
       /\ bucket["datasets/characters.json"] = CharactersArtifact(sync[r])
       /\ bucket["datasets/characters.json"] # CharactersArtifact(sync[q])

\* C35 as stated: with the client id, the client secret or the token URL
\* unset, a sync run ends at once with ConfigMissing naming the unset
\* parameters: no token request, no request to the game API, no write.
C35_SyncChecksConfig ==
  [][\A p \in Callers :
       (Starts(p) /\ handler'[p] = "syncGameRef" /\ UnsetNames # <<>>)
       => /\ pc'[p] = "done"
          /\ res'[p].body.ok = FALSE
          /\ res'[p].body.error = [message |-> "Missing env", names |-> UnsetNames]
          /\ tokenFetches' = tokenFetches
          /\ tokenReq'[p] = None
          /\ sync'[p] = None
          /\ bucket' = bucket /\ metaDoc' = metaDoc]_vars

\* the places of the mint requests in the client's log
MintRequests ==
  {i \in 1..Len(client.log) : client.log[i].request = "POST /api/oauth/client"}
\* ensureAppToken has returned normally: the proxy request was repeated
EnsureReturned == Cardinality(ProxyRequests) = 2
LastAnswer == client'.log[Len(client.log)].status

\* C36: ensureAppToken returns normally only after a whoami that reported
\* the cookie; it posts /api/oauth/client only after a first whoami that did
\* not report it, and at most once; it fails when the post is not answered
\* ok and when the whoami after the post does not report the cookie.
C36_EnsureAppToken ==
  /\ [](/\ Cardinality(MintRequests) <= 1
        /\ EnsureReturned =>
             \E i \in ProxyRequests :
               /\ i > 2
               /\ client.log[i - 1] = [request |-> "GET /api/whoami", status |-> 200]
               /\ client.jar)
  /\ [][/\ (client.pc = "whoami" /\ client'.pc = "oauth") =>
             ~(LastAnswer = 200 /\ client.jar)
        /\ (client.pc = "whoami" /\ client'.pc = "retry") =>
             (LastAnswer = 200 /\ client.jar /\ MintRequests = {})
        /\ (client.pc = "oauth" /\ ~ok(LastAnswer)) =>
             client'.pc = "idle" /\ client'.result.state = "rejected"
        /\ (client.pc = "verify" /\ ~(LastAnswer = 200 /\ client.jar)) =>
             client'.pc = "idle" /\ client'.result.state = "rejected"]_vars

\* ensureAppToken has returned after a mint
C36_Witness ==
  /\ client.pc = "retry"
  /\ Len(client.log) = 5
  /\ client.log[3] = [request |-> "POST /api/oauth/client", status |-> 200]
  /\ client.log[4] = [request |-> "GET /api/whoami", status |-> 200]

\* seconds brought into the range 60..3600
Clamped(seconds) ==
  IF seconds < 60 THEN 60 ELSE IF seconds > 3600 THEN 3600 ELSE seconds

\* C37: an oauthClientCreds request that succeeds sets the cookie msf_at to
\* the access token getAppAccessToken returned, with Max-Age the returned
\* expires_in brought into 60..3600, and reports that expires_in; one that
\* fails sets no cookie.
C37_CookieCarriesToken ==
  \A p \in Callers :
    (handler[p] = "oauthClientCreds" /\ pc[p] = "done") =>
      IF res[p].status = 200
      THEN /\ token[p] # None /\ token[p].ok
           /\ res[p].setCookie.name = "msf_at"
           /\ res[p].setCookie.value = Get(token[p].value, "access_token")
           /\ res[p].body.expires_in = Get(token[p].value, "expires_in")
           /\ res[p].setCookie.maxAge = Clamped(Get(token[p].value, "expires_in").n)
      ELSE /\ res[p].setCookie = None
           /\ token[p] = None \/ ~token[p].ok

\* a token of two hours has been put into a cookie of one hour
C37_Witness ==
  \E p \in Callers :
    /\ handler[p] = "oauthClientCreds" /\ pc[p] = "done"
    /\ res[p].status = 200
    /\ res[p].body.expires_in = Num(7200)
    /\ res[p].setCookie.maxAge = 3600

\* the sync run of p has left its loop with every page collected
LoopOver(p) == sync[p] # None /\ pc[p] = "saveTraits"

\* getAllCharacters has returned
ClientReturned == client # None /\ client.pc = "returned"

\* C38: against the same upstream and with the same page size, the client's
\* getAllCharacters and the loop of syncGameRef ask for the same page numbers
\* in the same order, stop after the same page, collect the same number of
\* items in the same order (the sync run holds the normalized form of what the
\* client holds), and report the same meta { perTotal, perPage, page }
C38_SamePagination ==
  \A p \in Callers :
    LoopOver(p) /\ ClientReturned =>
      /\ client.requested = PagesRequested(p)
      /\ Len(client.all) = Len(sync[p].allChars)
      /\ \A k \in 1..Len(client.all) :
           Normalize(client.all[k]).value = sync[p].allChars[k]
      /\ Get(client.returned, "meta") = Get(CharactersArtifact(sync[p]).value, "meta")
      /\ client.page = sync[p].page

\* both paginators have ended after a short third page
C38_Witness ==
  \E p \in Callers :
    /\ LoopOver(p) /\ ClientReturned
    /\ client.requested = <<1, 2, 3>>
    /\ Len(client.all) = 2 * perPage + 47

\* C39: after a successful run the page stored in the meta of the characters
\* artifact is the number of the last page the run fetched from upstream,
\* whichever way the loop ended.
C39_StoredPageIsLastFetched ==
  \A p \in Callers :
    SyncSucceeded(p) =>
      Get(Get(bucket["datasets/characters.json"].value, "meta"), "page")
        = Num(PageFetches(p))
====
